---- MODULE Spec2Model ----
(***************************************************************************)
(* Verification model of the CasketsApp data-entry forms.                  *)
(*                                                                         *)
(* Each form of the repository is an independent component; the variable   *)
(* app selects the form a behaviour runs.  Zod schemas are modelled as     *)
(* operators that return the set of issues <<path, message>> the schema    *)
(* reports; asynchronous handlers are split at their awaits.               *)
(***************************************************************************)
EXTENDS Integers, Sequences, FiniteSets, TLC

VARIABLES
    app,            \* which form component is mounted
    \* ---- UserRegistrationForm (src/Stock_Receipt.tsx:1049) ----
    values,         \* form.getValues(): [firstName, lastName, role]
    formErrors,     \* field names reported by the last handleSubmit
    loadingDraft,   \* useState(true)
    isSubmitting,   \* useState(false)
    lastError,      \* useState<string | null>(null)
    calls,          \* every onSubmit invocation, in order of its start
    toasts,         \* useLocalToast items
    idRef,          \* useLocalToast idRef.current
    ls,             \* window.localStorage[DRAFT_KEY]
    idb,            \* idb-keyval store [DRAFT_KEY]
    idbQueue,       \* IndexedDB requests issued and not yet completed (FIFO)
    timer,          \* useDebouncedCallback t.current: the pending arguments
    waited,         \* milliseconds since the pending timeout was set
    navigated,      \* window.location.assign("/success") was called
    lastFailed,     \* index in calls of the attempt that set lastError
    edits,          \* number of field changes so far
    \* ---- ProductionOrderForm, multi-item (src/Production_Order.tsx:250) ----
    po,             \* the form values: job and the three field arrays
    poIssues,       \* the issues the resolver reported at the last submit
    poLogged,       \* the payload onSubmit logged last
    poEdits,        \* number of field changes and array operations so far
    \* ---- ProductionOrderForm, single type (src/unnamed/part_000:227) ----
    so,             \* the form values: coffinType and the three arrays
    soIssues,       \* the issues the resolver reported at the last submit
    soLogged,       \* the payload onSubmit logged last
    soEdits,        \* number of field changes so far
    \* ---- CasketForm (src/Stock_Receipt.tsx:1606) ----
    ck,             \* the form values
    ckIssues,       \* the issues the resolver reported at the last submit
    ckSaved,        \* the record handed to onSubmit last
    ckSubmitting,   \* formState.isSubmitting: onSubmit has not settled
    successOpen,    \* useState(false)
    ckEdits,        \* number of field changes so far
    \* ---- DowntimeForm (src/Downtime.tsx:133) ----
    dt,             \* the form values
    dtIssues,       \* the issues the resolver reported at the last submit
    submitting,     \* useState(false)
    open,           \* useState(false)
    submittedData,  \* useState(null)
    dtCall,         \* the payload saveDowntime is working on
    dtRecords,      \* localStorage["downtime_records"]
    dtAlert,        \* the text of the last alert()
    dtCalls,        \* number of onSubmit invocations so far
    dtEdits,        \* number of field changes so far
    \* ---- DowntimeEpisodeForm (src/Employee_Details.tsx:119) ----
    em,             \* the form values
    emIssues,       \* the issues the resolver reported at the last submit
    emCalls,        \* the onSubmit invocations that have not settled
    emSaves,        \* number of onSubmit invocations so far
    preview,        \* useState(undefined): is a preview URL set
    emAlert,        \* the text of the last alert()
    emEdits,        \* number of field changes so far
    \* ---- StockReceiveForm (src/Stock_Receipt.tsx:85) ----
    locations,      \* the locations prop
    sr,             \* the form values
    srIssues,       \* the issues the resolver reported at the last submit
    srSubmitted,    \* the payload handed to onSubmit (or logged) last
    srPending,      \* the total cost effect is scheduled and has not run
    srEdits,        \* number of field changes so far
    \* ---- CustomerCoffinForm (src/Customer_V2.tsx:21) ----
    wz,             \* the form values
    step,           \* useState(0)
    wzErrors,       \* formState.errors: the fields that carry an error
    wzSubmitted,    \* the record logged as 'Form submitted:' last
    wzEdits,        \* number of field changes so far
    \* ---- StockWithdrawalForm (src/Stock_Withdrawal.tsx:76) ----
    swItems,        \* the items prop: the ids of the stock items, if it is passed
    swDisabled,     \* the disabled prop
    swDefaults,     \* the default values, those of the defaultValues prop included
    sw,             \* the form values
    swIsValid,      \* form.formState.isValid
    swIssues,       \* the issues the resolver reported at the last submit
    swSubmitted,    \* the values handed to onSubmit last
    swEdits,        \* number of field changes so far
    \* ---- calcTotalCost applied to two numbers (inline tests) ----
    calcArgs,       \* <<qty, unitPrice>>
    calcResults,    \* what each call returned, in order
    \* ---- schema.safeParse applied to a record (selfTest) ----
    input,          \* the schema and the record handed to it
    output,         \* the issues it reported
    parses          \* number of safeParse calls so far

urVars == <<values, formErrors, loadingDraft, isSubmitting, lastError, calls,
            toasts, idRef, ls, idb, idbQueue, timer, waited, navigated,
            lastFailed, edits>>

poVars == <<po, poIssues, poLogged, poEdits>>

soVars == <<so, soIssues, soLogged, soEdits>>

ckVars == <<ck, ckIssues, ckSaved, ckSubmitting, successOpen, ckEdits>>

dtVars == <<dt, dtIssues, submitting, open, submittedData, dtCall, dtRecords,
            dtAlert, dtCalls, dtEdits>>

emVars == <<em, emIssues, emCalls, emSaves, preview, emAlert, emEdits>>

srVars == <<locations, sr, srIssues, srSubmitted, srPending, srEdits>>

wzVars == <<wz, step, wzErrors, wzSubmitted, wzEdits>>

swVars == <<swItems, swDisabled, swDefaults, sw, swIsValid, swIssues, swSubmitted,
           swEdits>>

calcVars == <<calcArgs, calcResults>>

spVars == <<input, output, parses>>

notUser == <<poVars, soVars, ckVars, dtVars, emVars,
             srVars, wzVars, swVars, calcVars, spVars>>
notOrder == <<urVars, soVars, ckVars, dtVars, emVars,
              srVars, wzVars, swVars, calcVars, spVars>>
notSingle == <<urVars, poVars, ckVars, dtVars, emVars,
               srVars, wzVars, swVars, calcVars, spVars>>
notCasket == <<urVars, poVars, soVars, dtVars, emVars,
               srVars, wzVars, swVars, calcVars, spVars>>
notDowntime == <<urVars, poVars, soVars, ckVars, emVars,
                 srVars, wzVars, swVars, calcVars, spVars>>
notEmployee == <<urVars, poVars, soVars, ckVars, dtVars,
                 srVars, wzVars, swVars, calcVars, spVars>>
notSchema == <<urVars, poVars, soVars, ckVars, dtVars, emVars,
              srVars, wzVars, swVars, calcVars>>
notStock == <<urVars, poVars, soVars, ckVars, dtVars, emVars,
             wzVars, swVars, calcVars, spVars>>
notWizard == <<urVars, poVars, soVars, ckVars, dtVars, emVars,
              srVars, swVars, calcVars, spVars>>
notWithdrawal == <<urVars, poVars, soVars, ckVars, dtVars, emVars,
                  srVars, wzVars, calcVars, spVars>>
notCalc == <<urVars, poVars, soVars, ckVars, dtVars, emVars,
            srVars, wzVars, swVars, spVars>>

vars == <<app, urVars, poVars, soVars, ckVars, dtVars, emVars,
         srVars, wzVars, swVars, calcVars, spVars>>

----------------------------------------------------------------------------
\* JavaScript values that are not strings or numbers
Undefined == "undefined"
Null == "null"
Absent == <<>>              \* no entry under the key in a store
NoTimer == <<>>             \* t.current holds no pending timeout
Some(x) == <<x>>            \* a present entry, a pending argument

----------------------------------------------------------------------------
\* Bounds of the exploration
MaxCalls == 3               \* onSubmit invocations of the registration form
MaxPendingWrites == 1       \* draft writes awaiting IndexedDB at one time
MaxEdits == 2               \* field changes of the registration form
MaxChanges == 2             \* field changes and array operations of another form
MaxSaves == 2               \* onSubmit invocations of the downtime and employee forms
MaxItems == 2               \* entries per field array
MaxRuns == 2                \* calls of a pure function on the same arguments
MaxEntries == 4             \* field changes of the customer wizard
TickMs == 100               \* milliseconds between two looks at the clock

----------------------------------------------------------------------------
\* UserRegistrationForm: schema

roles == {"New User", "Receptionist", "Administrator", "Manager",
          "Carpenter", "super User"}

\* a schema whose names have no upper limit
FormSchemaErrorsWithoutMax(v) ==
    {f \in {"firstName", "lastName"} : v[f] = Undefined \/ Len(v[f]) < 1}
    \cup (IF v.role \in roles THEN {} ELSE {"role"})

\* the issues FormSchema.safeParse reports, as a set of field names
FormSchemaErrors(v) ==
    {f \in {"firstName", "lastName"} :
        v[f] = Undefined \/ Len(v[f]) < 1 \/ Len(v[f]) > 100}
    \cup (IF v.role \in roles THEN {} ELSE {"role"})

FormSchemaOk(v) == FormSchemaErrors(v) = {}

DefaultValues == [firstName |-> "", lastName |-> "", role |-> Undefined]

\* what the user types or selects
FirstNames == {"", "Jane"}
LastNames == {"", "Doe"}
RoleChoices == {"Manager"}

\* JSON.parse(JSON.stringify(v)): a property holding undefined is dropped by
\* stringify and reads back as undefined
JsonStringify(v) ==
    <<v.firstName, v.lastName>> \o (IF v.role = Undefined THEN <<>> ELSE <<v.role>>)
JsonParse(s) ==
    [firstName |-> s[1], lastName |-> s[2],
     role |-> IF Len(s) >= 3 THEN s[3] ELSE Undefined]

----------------------------------------------------------------------------
\* UserRegistrationForm: operations

\* toast(input): id = ++idRef.current; items = [...items, item]
toast(items, id, hasAction, of) ==
    items \cup {[id |-> id, action |-> hasAction, of |-> of]}

\* onSubmit(v) up to its first await: setIsSubmitting(true),
\* setLastError(null), submitToServer(v) is called
onSubmitStart(v, via, of) ==
    /\ Len(calls) < MaxCalls
    /\ isSubmitting' = TRUE
    /\ lastError' = Null
    /\ calls' = Append(calls, [rec |-> v, via |-> via, of |-> of, st |-> "inflight"])

\* const draft = dbDraft || lsDraft, of what get(DRAFT_KEY) gave and what
\* localStorage.getItem(DRAFT_KEY) gave
draftOf(dbDraft, lsDraftRaw) ==
    LET lsDraft == IF lsDraftRaw = Absent THEN Absent ELSE Some(JsonParse(lsDraftRaw[1]))
    IN  IF dbDraft # Absent THEN dbDraft ELSE lsDraft

\* the mount effect: get(DRAFT_KEY) completes, localStorage is read,
\* form.reset(draft) when there is a draft, finally setLoadingDraft(false)
MountLoadDone ==
    /\ app = "user" /\ ~navigated
    /\ idbQueue # <<>> /\ Head(idbQueue).op = "get"
    /\ LET draft == draftOf(idb, ls)
       IN values' = IF draft # Absent THEN draft[1] ELSE values
    /\ loadingDraft' = FALSE
    /\ idbQueue' = Tail(idbQueue)
    /\ UNCHANGED <<app, notUser, edits, formErrors, isSubmitting, lastError, calls, toasts, idRef,
                   ls, idb, timer, waited, navigated, lastFailed>>

\* useDebouncedCallback(fn, delay = 300): the delay persistDraft is given
delay == 300

\* a debounce that keeps the timeout it has
debouncedKeepingPending(t, args) == IF t # NoTimer THEN t ELSE Some(args)

\* the function useDebouncedCallback returns, called with args:
\* if (t.current) clearTimeout(t.current); t.current = setTimeout(() => fn(args), delay)
debounced(t, args) == Some(args)

\* time passes while a timeout is pending (a timeout that is due stays due)
TimerTick ==
    /\ app = "user" /\ ~navigated
    /\ timer # NoTimer
    /\ waited < delay
    /\ waited' = IF waited + TickMs > delay THEN delay ELSE waited + TickMs
    /\ UNCHANGED <<app, notUser, edits, values, formErrors, loadingDraft, isSubmitting, lastError,
                   calls, toasts, idRef, ls, idb, idbQueue, timer, navigated, lastFailed>>

\* a field's onChange; form.watch's subscriber calls persistDraft(values),
\* which clears the pending timeout and sets a new one
ChangeField(f, x) ==
    /\ app = "user" /\ ~navigated
    /\ values[f] # x
    /\ edits < MaxEdits
    /\ edits' = edits + 1
    /\ values' = [values EXCEPT ![f] = x]
    /\ timer' = debounced(timer, values')
    /\ waited' = 0
    /\ UNCHANGED <<app, notUser, formErrors, loadingDraft, isSubmitting, lastError, calls,
                   toasts, idRef, ls, idb, idbQueue, navigated, lastFailed>>

ChangeFirstName == \E x \in FirstNames : ChangeField("firstName", x)
ChangeLastName == \E x \in LastNames : ChangeField("lastName", x)
ChangeRole == \E x \in RoleChoices : ChangeField("role", x)

\* the debounce timeout fires: persistDraft's body up to its await
PersistDraftFire ==
    /\ app = "user" /\ ~navigated
    /\ timer # NoTimer
    /\ waited >= delay
    /\ Len(SelectSeq(idbQueue, LAMBDA q : q.op = "set")) < MaxPendingWrites
    /\ ls' = Some(JsonStringify(timer[1]))
    /\ idbQueue' = Append(idbQueue, [op |-> "set", val |-> timer, owner |-> 0])
    /\ timer' = NoTimer
    /\ waited' = 0
    /\ UNCHANGED <<app, notUser, edits, values, formErrors, loadingDraft, isSubmitting, lastError,
                   calls, toasts, idRef, idb, navigated, lastFailed>>

\* set(DRAFT_KEY, values) completes; nothing follows the await
PersistDraftDone ==
    /\ app = "user" /\ ~navigated
    /\ idbQueue # <<>> /\ Head(idbQueue).op = "set"
    /\ idb' = Head(idbQueue).val
    /\ idbQueue' = Tail(idbQueue)
    /\ UNCHANGED <<app, notUser, edits, values, formErrors, loadingDraft, isSubmitting, lastError,
                   calls, toasts, idRef, ls, timer, waited, navigated, lastFailed>>

\* the Submit button (disabled={isSubmitting || loadingDraft}):
\* form.handleSubmit(onSubmit) runs the resolver, then onSubmit
SubmitClick ==
    /\ app = "user" /\ ~navigated
    /\ ~isSubmitting /\ ~loadingDraft
    /\ formErrors' = FormSchemaErrors(values)
    /\ IF FormSchemaOk(values)
       THEN onSubmitStart(values, "submit", 0)
       ELSE /\ formErrors' # formErrors
            /\ UNCHANGED <<isSubmitting, lastError, calls>>
    /\ UNCHANGED <<app, notUser, edits, values, loadingDraft, toasts, idRef, ls, idb, idbQueue,
                   timer, waited, navigated, lastFailed>>

\* the inline panel's Retry button, rendered while lastError is set:
\* onClick={() => onSubmit(form.getValues())}
InlineRetryClick ==
    /\ app = "user" /\ ~navigated
    /\ lastError # Null
    /\ onSubmitStart(values, "inlineRetry", lastFailed)
    /\ UNCHANGED <<app, notUser, edits, values, formErrors, loadingDraft, toasts, idRef, ls, idb,
                   idbQueue, timer, waited, navigated, lastFailed>>

\* a toast's action button: t.onAction?.(); dismiss(t.id), where onAction is
\* () => onSubmit(form.getValues())
ToastRetryClick ==
    /\ app = "user" /\ ~navigated
    /\ \E t \in toasts :
        /\ t.action
        /\ onSubmitStart(values, "toastRetry", t.of)
        /\ toasts' = toasts \ {t}
    /\ UNCHANGED <<app, notUser, edits, values, formErrors, loadingDraft, idRef, ls, idb, idbQueue,
                   timer, waited, navigated, lastFailed>>

\* the toast's close button, or its durationMs timeout: dismiss(id)
ToastDismiss ==
    /\ app = "user" /\ ~navigated
    /\ \E t \in toasts : toasts' = toasts \ {t}
    /\ UNCHANGED <<app, notUser, edits, values, formErrors, loadingDraft, isSubmitting, lastError,
                   calls, idRef, ls, idb, idbQueue, timer, waited, navigated, lastFailed>>

\* submitToServer resolves: onSubmit goes on to clearDrafts, which removes the
\* localStorage entry and awaits del(DRAFT_KEY)
SubmitResolve ==
    /\ app = "user" /\ ~navigated
    /\ \E i \in 1..Len(calls) :
        /\ calls[i].st = "inflight"
        /\ calls' = [calls EXCEPT ![i].st = "clearing"]
        /\ ls' = Absent
        /\ idbQueue' = Append(idbQueue, [op |-> "del", val |-> Absent, owner |-> i])
    /\ UNCHANGED <<app, notUser, edits, values, formErrors, loadingDraft, isSubmitting, lastError,
                   toasts, idRef, idb, timer, waited, navigated, lastFailed>>

\* del(DRAFT_KEY) of an onSubmit completes: the success toast, the redirect,
\* and the finally block
SubmitClearDone ==
    /\ app = "user" /\ ~navigated
    /\ idbQueue # <<>> /\ Head(idbQueue).op = "del"
    /\ idb' = Absent
    /\ idbQueue' = Tail(idbQueue)
    /\ calls' = [calls EXCEPT ![Head(idbQueue).owner].st = "done"]
    /\ idRef' = idRef + 1
    /\ toasts' = toast(toasts, idRef', FALSE, 0)
    /\ navigated' = TRUE
    /\ isSubmitting' = FALSE
    /\ UNCHANGED <<app, notUser, edits, values, formErrors, loadingDraft, lastError, ls, timer, waited,
                   lastFailed>>

\* a catch block that clears the drafts as the success path does
SubmitRejectClearingDrafts ==
    /\ app = "user" /\ ~navigated
    /\ \E i \in 1..Len(calls) :
        /\ calls[i].st = "inflight"
        /\ calls' = [calls EXCEPT ![i].st = "failed"]
        /\ lastError' = "Network error. Please check your connection."
        /\ idRef' = idRef + 1
        /\ toasts' = toast(toasts, idRef', TRUE, i)
        /\ lastFailed' = i
    /\ isSubmitting' = FALSE
    /\ ls' = Absent
    /\ UNCHANGED <<app, notUser, edits, values, formErrors, loadingDraft, idb, idbQueue, timer, waited,
                   navigated>>

\* submitToServer throws: the catch block and the finally block
SubmitReject ==
    /\ app = "user" /\ ~navigated
    /\ \E i \in 1..Len(calls) :
        /\ calls[i].st = "inflight"
        /\ calls' = [calls EXCEPT ![i].st = "failed"]
        /\ lastError' = "Network error. Please check your connection."
        /\ idRef' = idRef + 1
        /\ toasts' = toast(toasts, idRef', TRUE, i)
        /\ lastFailed' = i
    /\ isSubmitting' = FALSE
    /\ UNCHANGED <<app, notUser, edits, values, formErrors, loadingDraft, ls, idb, idbQueue, timer, waited,
                   navigated>>

----------------------------------------------------------------------------
\* UserRegistrationForm: the draft stores when they throw

\* a mount effect without its finally block
MountLoadThrowsStuck ==
    /\ app = "user" /\ ~navigated
    /\ idbQueue # <<>> /\ Head(idbQueue).op = "get"
    /\ idbQueue' = Tail(idbQueue)
    /\ UNCHANGED <<app, notUser, edits, values, formErrors, loadingDraft, isSubmitting, lastError,
                   calls, toasts, idRef, ls, idb, timer, waited, navigated, lastFailed>>

\* the mount effect when get(DRAFT_KEY) rejects, or localStorage.getItem or
\* JSON.parse throws: catch ignores it, finally setLoadingDraft(false)
MountLoadThrows ==
    /\ app = "user" /\ ~navigated
    /\ idbQueue # <<>> /\ Head(idbQueue).op = "get"
    /\ loadingDraft' = FALSE
    /\ idbQueue' = Tail(idbQueue)
    /\ UNCHANGED <<app, notUser, edits, values, formErrors, isSubmitting, lastError, calls,
                   toasts, idRef, ls, idb, timer, waited, navigated, lastFailed>>

\* the debounce timeout fires and localStorage.setItem throws: the catch
\* block ends persistDraft, set(DRAFT_KEY, values) is not called
PersistDraftThrows ==
    /\ app = "user" /\ ~navigated
    /\ timer # NoTimer
    /\ waited >= delay
    /\ timer' = NoTimer
    /\ waited' = 0
    /\ UNCHANGED <<app, notUser, edits, values, formErrors, loadingDraft, isSubmitting, lastError,
                   calls, toasts, idRef, ls, idb, idbQueue, navigated, lastFailed>>

\* set(DRAFT_KEY, values) rejects: the catch block
PersistDraftReject ==
    /\ app = "user" /\ ~navigated
    /\ idbQueue # <<>> /\ Head(idbQueue).op = "set"
    /\ idbQueue' = Tail(idbQueue)
    /\ UNCHANGED <<app, notUser, edits, values, formErrors, loadingDraft, isSubmitting, lastError,
                   calls, toasts, idRef, ls, idb, timer, waited, navigated, lastFailed>>

\* submitToServer resolves and localStorage.removeItem throws in clearDrafts:
\* its catch block ends it, del(DRAFT_KEY) is not called, and onSubmit goes
\* on with the success toast, the redirect and the finally block
SubmitResolveClearThrows ==
    /\ app = "user" /\ ~navigated
    /\ \E i \in 1..Len(calls) :
        /\ calls[i].st = "inflight"
        /\ calls' = [calls EXCEPT ![i].st = "done"]
    /\ idRef' = idRef + 1
    /\ toasts' = toast(toasts, idRef', FALSE, 0)
    /\ navigated' = TRUE
    /\ isSubmitting' = FALSE
    /\ UNCHANGED <<app, notUser, edits, values, formErrors, loadingDraft, lastError, ls, idb,
                   idbQueue, timer, waited, lastFailed>>

\* del(DRAFT_KEY) of an onSubmit rejects: the catch block of clearDrafts,
\* then the success toast, the redirect and the finally block
SubmitClearReject ==
    /\ app = "user" /\ ~navigated
    /\ idbQueue # <<>> /\ Head(idbQueue).op = "del"
    /\ idbQueue' = Tail(idbQueue)
    /\ calls' = [calls EXCEPT ![Head(idbQueue).owner].st = "done"]
    /\ idRef' = idRef + 1
    /\ toasts' = toast(toasts, idRef', FALSE, 0)
    /\ navigated' = TRUE
    /\ isSubmitting' = FALSE
    /\ UNCHANGED <<app, notUser, edits, values, formErrors, loadingDraft, lastError, ls, idb,
                   timer, waited, lastFailed>>

\* the faults of the two stores
NextFaults ==
    \/ MountLoadThrows
    \/ PersistDraftThrows
    \/ PersistDraftReject
    \/ SubmitResolveClearThrows
    \/ SubmitClearReject

\* a draft left in the stores by an earlier session
StoredDrafts == {[firstName |-> "Jane", lastName |-> "Doe", role |-> "Manager"]}

InitUser ==
    /\ values = DefaultValues
    /\ formErrors = {}
    /\ loadingDraft = TRUE
    /\ isSubmitting = FALSE
    /\ lastError = Null
    /\ calls = <<>>
    /\ toasts = {}
    /\ idRef = 0
    /\ \/ ls = Absent /\ idb = Absent
       \/ \E d \in StoredDrafts : ls = Some(JsonStringify(d)) /\ idb = Some(d)
    /\ idbQueue = <<[op |-> "get", val |-> Absent, owner |-> 0]>>
    /\ timer = NoTimer
    /\ waited = 0
    /\ navigated = FALSE
    /\ lastFailed = 0
    /\ edits = 0

NextUser ==
    \/ MountLoadDone
    \/ TimerTick
    \/ ChangeFirstName
    \/ ChangeLastName
    \/ ChangeRole
    \/ PersistDraftFire
    \/ PersistDraftDone
    \/ SubmitClick
    \/ InlineRetryClick
    \/ ToastRetryClick
    \/ ToastDismiss
    \/ SubmitResolve
    \/ SubmitClearDone
    \/ SubmitReject

----------------------------------------------------------------------------
\* Zod: issues, object parsing and refinements
\*
\* An issue is [path, message, fatal].  fatal marks an issue that makes the
\* parse of its schema return INVALID (status "aborted": a wrong type, a union
\* or literal mismatch); a failed check (min, int) or refinement only makes
\* it "dirty".  ZodEffects runs its refinement unless the inner parse aborted.

Issue(path, message, fatal) == [path |-> path, message |-> message, fatal |-> fatal]

\* the issues of a nested value, reported under the parent's key or index
At(prefix, issues) == {[i EXCEPT !.path = prefix \o i.path] : i \in issues}

Aborted(issues) == \E i \in issues : i.fatal

\* schema.refine(check, {path, message}) on top of the inner schema's issues
refine(inner, holds, path, message) ==
    IF Aborted(inner) \/ holds THEN inner
    ELSE inner \cup {Issue(path, message, FALSE)}

\* numbers: <<whole, tenths>>; NaN is what valueAsNumber gives for an empty
\* input; a field never filled in is undefined
NaN == <<"NaN">>
NumUndefined == <<"undefined">>
Num(w, t) == <<w, t>>
IsNumber(x) == Len(x) = 2
IsInt(x) == x[2] = 0
AtLeast(x, n) == x[1] >= n

\* free text: a sequence of characters, or undefined when the key is absent
TextUndefined == <<"undefined">>
RECURSIVE trimStart(_)
trimStart(s) == IF s # <<>> /\ Head(s) = " " THEN trimStart(Tail(s)) ELSE s
RECURSIVE trimEnd(_)
trimEnd(s) ==
    IF s # <<>> /\ s[Len(s)] = " " THEN trimEnd(SubSeq(s, 1, Len(s) - 1)) ELSE s
trim(s) == trimEnd(trimStart(s))
\* !!v?.trim()
TrimTruthy(s) == s # TextUndefined /\ trim(s) # <<>>

\* z.string().min(1, message)
stringMin1(x, message) ==
    IF x = Undefined THEN {Issue(<<>>, "Required", TRUE)}
    ELSE IF Len(x) < 1 THEN {Issue(<<>>, message, FALSE)} ELSE {}

----------------------------------------------------------------------------
\* Production order form, multi-item (src/Production_Order.tsx)

ASSIGNED_TO == {"Workshop Team", "Support Team", "Other"}
REQUESTED_BY == {"Director", "Manager", "Other"}
SIZES_COMMON == {"Adult", "60in", "48in", "38in", "30in", "24in", "Stillbirth", "Other"}
COLORS == {"White", "Brown", "Other"}
FLAT_MATERIALS == {"Superwood", "Zimtex/Superwood"}
FLAT_TIERS == {"Flat", "1 Tier", "2 Tier", "3 Tier"}
FLAT_SIZES == {"Adult", "Jumbo", "60in", "48in", "38in", "30in", "24in",
               "Stillbirth", "Other"}
DOME_MATERIALS == {"Superwood", "Zimtex/Superwood"}
DOME_SIZES == {"Adult", "Other"}
DURATION_UNITS == {"Hours", "Days", "Weeks", "Months"}

\* z.union([z.enum(vals), z.literal("")])
enumOrEmpty(vals, x) ==
    IF x \in vals \cup {""} THEN {}
    ELSE {Issue(<<>>, "Invalid input", TRUE)}

\* z.number({invalid_type_error}).int(...).min(1, ...)
baseQuantity(x) ==
    IF x = NumUndefined THEN {Issue(<<>>, "Required", TRUE)}
    ELSE IF ~IsNumber(x) THEN {Issue(<<>>, "Quantity must be a number", TRUE)}
    ELSE (IF IsInt(x) THEN {} ELSE {Issue(<<>>, "Quantity must be an integer", FALSE)})
         \cup (IF AtLeast(x, 1) THEN {} ELSE {Issue(<<>>, "Min quantity is 1", FALSE)})

\* job.expectedDurationValue: z.number({invalid_type_error}).min(1, ...)
durationValue(x) ==
    IF x = NumUndefined THEN {Issue(<<>>, "Required", TRUE)}
    ELSE IF ~IsNumber(x) THEN {Issue(<<>>, "Duration must be a number", TRUE)}
    ELSE IF AtLeast(x, 1) THEN {} ELSE {Issue(<<>>, "Duration is required", FALSE)}

\* the job object and its five refinements
jobSchema(v) ==
    LET obj == At(<<"expectedStartDate">>, stringMin1(v.expectedStartDate, "Date is required"))
               \cup At(<<"expectedStartTime">>, stringMin1(v.expectedStartTime, "Time is required"))
               \cup At(<<"expectedDurationValue">>, durationValue(v.expectedDurationValue))
               \cup At(<<"expectedDurationUnit">>, enumOrEmpty(DURATION_UNITS, v.expectedDurationUnit))
               \cup At(<<"assignedTo">>, enumOrEmpty(ASSIGNED_TO, v.assignedTo))
               \cup At(<<"requestedBy">>, enumOrEmpty(REQUESTED_BY, v.requestedBy))
        r1 == refine(obj, v.expectedDurationUnit # "", <<"expectedDurationUnit">>,
                     "Please select a duration unit.")
        r2 == refine(r1, v.assignedTo # "", <<"assignedTo">>,
                     "Please select the assignee team.")
        r3 == refine(r2, v.requestedBy # "", <<"requestedBy">>,
                     "Please select who requested.")
        r4 == refine(r3, v.assignedTo # "Other" \/ TrimTruthy(v.assignedToOther),
                     <<"assignedToOther">>, "Please specify who it's assigned to.")
    IN refine(r4, v.requestedBy # "Other" \/ TrimTruthy(v.requestedByOther),
              <<"requestedByOther">>, "Please specify who requested.")

\* the refinements without the one that requires a size to be selected
sizeColorRefinesWithoutSize(inner, v, sizeMessage, colorMessage) ==
    LET r2 == refine(inner, v.color # "", <<"color">>, colorMessage)
        r3 == refine(r2, v.size # "Other" \/ TrimTruthy(v.sizeOther),
                     <<"sizeOther">>, "Please specify the size.")
    IN refine(r3, v.color # "Other" \/ TrimTruthy(v.colorOther),
              <<"colorOther">>, "Please specify the color.")

\* the size/color refinements shared by the three line-item schemas
sizeColorRefines(inner, v, sizeMessage, colorMessage) ==
    LET r1 == refine(inner, v.size # "", <<"size">>, sizeMessage)
        r2 == refine(r1, v.color # "", <<"color">>, colorMessage)
        r3 == refine(r2, v.size # "Other" \/ TrimTruthy(v.sizeOther),
                     <<"sizeOther">>, "Please specify the size.")
    IN refine(r3, v.color # "Other" \/ TrimTruthy(v.colorOther),
              <<"colorOther">>, "Please specify the color.")

\* an element of coffinFishes
coffinFishSchema(v) ==
    LET obj == At(<<"fishType">>, stringMin1(v.fishType, "Fish type is required"))
               \cup At(<<"size">>, enumOrEmpty(SIZES_COMMON, v.size))
               \cup At(<<"color">>, enumOrEmpty(COLORS, v.color))
               \cup At(<<"quantity">>, baseQuantity(v.quantity))
    IN sizeColorRefines(obj, v, "Please select a size.", "Please select a color.")

\* an element of flatCaskets
flatCasketSchema(v) ==
    LET obj == At(<<"material">>, enumOrEmpty(FLAT_MATERIALS, v.material))
               \cup At(<<"tier">>, enumOrEmpty(FLAT_TIERS, v.tier))
               \cup At(<<"size">>, enumOrEmpty(FLAT_SIZES, v.size))
               \cup At(<<"color">>, enumOrEmpty(COLORS, v.color))
               \cup At(<<"quantity">>, baseQuantity(v.quantity))
        r1 == refine(obj, v.material # "", <<"material">>, "Please select material.")
        r2 == refine(r1, v.tier # "", <<"tier">>, "Please select tier.")
    IN sizeColorRefines(r2, v, "Please select size.", "Please select color.")

\* an element of domeCaskets
domeCasketSchema(v) ==
    LET obj == At(<<"material">>, enumOrEmpty(DOME_MATERIALS, v.material))
               \cup At(<<"size">>, enumOrEmpty(DOME_SIZES, v.size))
               \cup At(<<"color">>, enumOrEmpty(COLORS, v.color))
               \cup At(<<"quantity">>, baseQuantity(v.quantity))
        r1 == refine(obj, v.material # "", <<"material">>, "Please select material.")
    IN sizeColorRefines(r1, v, "Please select size.", "Please select color.")

itemSchema(list, v) ==
    CASE list = "coffinFishes" -> coffinFishSchema(v)
      [] list = "flatCaskets" -> flatCasketSchema(v)
      [] list = "domeCaskets" -> domeCasketSchema(v)

PoLists == {"coffinFishes", "flatCaskets", "domeCaskets"}

minMessage(list) ==
    CASE list = "coffinFishes" -> "Add at least one Coffin (Fish) item"
      [] list = "flatCaskets" -> "Add at least one Flat Casket"
      [] list = "domeCaskets" -> "Add at least one Dome Casket"

\* the path segment of the k-th element of an array
IndexName == <<"0", "1", "2", "3">>

\* an array schema without the min check
arrayWithoutMin(list, items) ==
    UNION {At(<<IndexName[k]>>, itemSchema(list, items[k])) : k \in 1..Len(items)}

\* z.array(item).min(1, message): the min check, then every element, whose
\* issues carry the element's 0-based index
arrayMin1(list, items) ==
    (IF Len(items) < 1 THEN {Issue(<<>>, minMessage(list), FALSE)} ELSE {})
    \cup UNION {At(<<IndexName[k]>>, itemSchema(list, items[k])) : k \in 1..Len(items)}

\* schema.safeParse(v).error.issues, empty when the record is accepted
schema(v) ==
    At(<<"job">>, jobSchema(v.job))
    \cup UNION {At(<<l>>, arrayMin1(l, v[l])) : l \in PoLists}

\* useForm defaultValues, and the items append() adds
defaultItem(list) ==
    CASE list = "coffinFishes" ->
            [fishType |-> "", size |-> "", sizeOther |-> TextUndefined, color |-> "",
             colorOther |-> TextUndefined, quantity |-> Num(1, 0)]
      [] list = "flatCaskets" ->
            [material |-> "", tier |-> "", size |-> "", sizeOther |-> TextUndefined,
             color |-> "", colorOther |-> TextUndefined, quantity |-> Num(1, 0)]
      [] list = "domeCaskets" ->
            [material |-> "", size |-> "", sizeOther |-> TextUndefined, color |-> "",
             colorOther |-> TextUndefined, quantity |-> Num(1, 0)]

defaultOrder ==
    [job |-> [expectedStartDate |-> "", expectedStartTime |-> "",
              expectedDurationValue |-> NumUndefined, expectedDurationUnit |-> "",
              assignedTo |-> "", assignedToOther |-> TextUndefined,
              requestedBy |-> "", requestedByOther |-> TextUndefined],
     coffinFishes |-> <<defaultItem("coffinFishes")>>,
     flatCaskets |-> <<defaultItem("flatCaskets")>>,
     domeCaskets |-> <<defaultItem("domeCaskets")>>]

\* the order selfTest calls valid
validOrder ==
    [job |-> [expectedStartDate |-> "2025-09-16", expectedStartTime |-> "09:00",
              expectedDurationValue |-> Num(3, 0), expectedDurationUnit |-> "Hours",
              assignedTo |-> "Workshop Team", assignedToOther |-> TextUndefined,
              requestedBy |-> "Manager", requestedByOther |-> TextUndefined],
     coffinFishes |-> <<[fishType |-> "Type A", size |-> "Adult",
                         sizeOther |-> TextUndefined, color |-> "White",
                         colorOther |-> TextUndefined, quantity |-> Num(1, 0)]>>,
     flatCaskets |-> <<[material |-> "Superwood", tier |-> "Flat", size |-> "Adult",
                        sizeOther |-> TextUndefined, color |-> "Brown",
                        colorOther |-> TextUndefined, quantity |-> Num(2, 0)]>>,
     domeCaskets |-> <<[material |-> "Superwood", size |-> "Adult",
                        sizeOther |-> TextUndefined, color |-> "White",
                        colorOther |-> TextUndefined, quantity |-> Num(1, 0)]>>]

\* what the user types into a companion text input
OtherTexts == {<<>>, <<" ">>, <<"x">>}

\* what the user enters into a field of the job card
JobInputs(f) ==
    CASE f = "expectedStartDate" -> {"", "2025-09-16"}
      [] f = "expectedStartTime" -> {"", "09:00"}
      [] f = "expectedDurationValue" -> {NaN, Num(3, 0)}
      [] f = "expectedDurationUnit" -> {"Hours"}
      [] f = "assignedTo" -> {"Workshop Team", "Other"}
      [] f = "requestedBy" -> {"Manager", "Other"}
      [] f \in {"assignedToOther", "requestedByOther"} -> OtherTexts

\* what the user enters into a field of a line item
ItemInputs(f) ==
    CASE f = "fishType" -> {"", "Type A"}
      [] f = "material" -> {"Superwood"}
      [] f = "tier" -> {"Flat"}
      [] f = "size" -> {"Adult", "Other"}
      [] f = "color" -> {"White", "Other"}
      [] f \in {"sizeOther", "colorOther"} -> OtherTexts
      [] f = "quantity" -> {NaN, Num(0, 0), Num(2, 0)}

\* the companion input is rendered only while its select shows "Other"
Rendered(rec, f) ==
    CASE f = "assignedToOther" -> rec.assignedTo = "Other"
      [] f = "requestedByOther" -> rec.requestedBy = "Other"
      [] f = "sizeOther" -> rec.size = "Other"
      [] f = "colorOther" -> rec.color = "Other"
      [] OTHER -> TRUE

\* a control of the job card changes its field
PoChangeJob ==
    /\ app = "order"
    /\ poEdits < MaxChanges
    /\ \E f \in DOMAIN po.job : \E x \in JobInputs(f) :
        /\ Rendered(po.job, f)
        /\ po.job[f] # x
        /\ po' = [po EXCEPT !.job[f] = x]
    /\ poEdits' = poEdits + 1
    /\ UNCHANGED <<app, notOrder, poIssues, poLogged>>

\* a control of a line item changes its field
PoChangeItem ==
    /\ app = "order"
    /\ poEdits < MaxChanges
    /\ \E l \in PoLists : \E k \in 1..Len(po[l]) :
       \E f \in DOMAIN po[l][k] : \E x \in ItemInputs(f) :
        /\ Rendered(po[l][k], f)
        /\ po[l][k][f] # x
        /\ po' = [po EXCEPT ![l][k][f] = x]
    /\ poEdits' = poEdits + 1
    /\ UNCHANGED <<app, notOrder, poIssues, poLogged>>

\* the Add button of a card: array.append(default item)
PoAppend ==
    /\ app = "order"
    /\ poEdits < MaxChanges
    /\ \E l \in PoLists :
        /\ Len(po[l]) < MaxItems
        /\ po' = [po EXCEPT ![l] = Append(@, defaultItem(l))]
    /\ poEdits' = poEdits + 1
    /\ UNCHANGED <<app, notOrder, poIssues, poLogged>>

\* the trash button of an item: array.remove(idx)
PoRemove ==
    /\ app = "order"
    /\ poEdits < MaxChanges
    /\ \E l \in PoLists : \E k \in 1..Len(po[l]) :
        po' = [po EXCEPT ![l] = SubSeq(@, 1, k - 1) \o SubSeq(@, k + 1, Len(@))]
    /\ poEdits' = poEdits + 1
    /\ UNCHANGED <<app, notOrder, poIssues, poLogged>>

\* Save Order: handleSubmit runs the resolver and, when the record is
\* accepted, onSubmit, which logs the payload
PoSubmit ==
    /\ app = "order"
    /\ poIssues' = schema(po)
    /\ poLogged' = IF schema(po) = {} THEN Some(po) ELSE poLogged
    /\ UNCHANGED <<app, notOrder, po, poEdits>>

\* the Reset button: reset()
PoReset ==
    /\ app = "order"
    /\ po # defaultOrder \/ poIssues # {}
    /\ po' = defaultOrder
    /\ poIssues' = {}
    /\ UNCHANGED <<app, notOrder, poLogged, poEdits>>

\* the form as the user finds it, or as filled in with a complete order
InitOrder ==
    /\ po \in {defaultOrder, validOrder}
    /\ poIssues = {}
    /\ poLogged = Absent
    /\ poEdits = 0

NextOrder ==
    \/ PoChangeJob
    \/ PoChangeItem
    \/ PoAppend
    \/ PoRemove
    \/ PoSubmit
    \/ PoReset

----------------------------------------------------------------------------
\* Production order form, single type (src/unnamed/part_000)

COFFIN_TYPES == {"Fish Coffin", "Dome Casket", "Flat Casket"}

\* a quantity schema that accepts every value
literalAny(x) == {}

\* quantity: z.literal(1)
literal1(x) ==
    IF x = Num(1, 0) THEN {} ELSE {Issue(<<>>, "Invalid literal value, expected 1", TRUE)}

\* an element of flatCaskets and of fishCoffins
flatItemSchema1(v) ==
    LET obj == At(<<"material">>, enumOrEmpty(FLAT_MATERIALS, v.material))
               \cup At(<<"tier">>, enumOrEmpty(FLAT_TIERS, v.tier))
               \cup At(<<"size">>, enumOrEmpty(FLAT_SIZES, v.size))
               \cup At(<<"color">>, enumOrEmpty(COLORS, v.color))
               \cup At(<<"quantity">>, literal1(v.quantity))
        r1 == refine(obj, v.material # "", <<"material">>, "Please select material.")
        r2 == refine(r1, v.tier # "", <<"tier">>, "Please select tier.")
    IN sizeColorRefines(r2, v, "Please select size.", "Please select color.")

\* an element of domeCaskets
domeItemSchema1(v) ==
    LET obj == At(<<"material">>, enumOrEmpty(DOME_MATERIALS, v.material))
               \cup At(<<"size">>, enumOrEmpty(DOME_SIZES, v.size))
               \cup At(<<"color">>, enumOrEmpty(COLORS, v.color))
               \cup At(<<"quantity">>, literal1(v.quantity))
        r1 == refine(obj, v.material # "", <<"material">>, "Please select material.")
    IN sizeColorRefines(r1, v, "Please select size.", "Please select color.")

SoLists == {"flatCaskets", "fishCoffins", "domeCaskets"}

itemSchema1(list, v) ==
    IF list = "domeCaskets" THEN domeItemSchema1(v) ELSE flatItemSchema1(v)

\* a schema that looks at the list of the selected type only
schema1OfSelected(v) ==
    LET selected ==
            CASE v.coffinType = "Flat Casket" -> {"flatCaskets"}
              [] v.coffinType = "Fish Coffin" -> {"fishCoffins"}
              [] v.coffinType = "Dome Casket" -> {"domeCaskets"}
              [] OTHER -> SoLists
    IN UNION {UNION {At(<<l, IndexName[k]>>, itemSchema1(l, v[l][k])) : k \in 1..Len(v[l])} :
                 l \in selected}

\* schema.safeParse(v).error.issues of the single-type form; coffinType is
\* not a key of the schema
schema1(v) ==
    UNION {UNION {At(<<l, IndexName[k]>>, itemSchema1(l, v[l][k])) : k \in 1..Len(v[l])} :
              l \in SoLists}

defaultItem1(list) ==
    IF list = "domeCaskets" THEN defaultItem("domeCaskets") ELSE defaultItem("flatCaskets")

defaultSingle ==
    [coffinType |-> "",
     flatCaskets |-> <<defaultItem1("flatCaskets")>>,
     fishCoffins |-> <<defaultItem1("fishCoffins")>>,
     domeCaskets |-> <<defaultItem1("domeCaskets")>>]

\* the record selfTest calls valid
validSingle ==
    [coffinType |-> "",
     flatCaskets |-> <<[material |-> "Superwood", tier |-> "Flat", size |-> "Adult",
                        sizeOther |-> TextUndefined, color |-> "Brown",
                        colorOther |-> TextUndefined, quantity |-> Num(1, 0)]>>,
     fishCoffins |-> <<[material |-> "Superwood", tier |-> "Flat", size |-> "Adult",
                        sizeOther |-> TextUndefined, color |-> "White",
                        colorOther |-> TextUndefined, quantity |-> Num(1, 0)]>>,
     domeCaskets |-> <<[material |-> "Superwood", size |-> "Adult",
                        sizeOther |-> TextUndefined, color |-> "White",
                        colorOther |-> TextUndefined, quantity |-> Num(1, 0)]>>]

\* the card a coffin type renders
CardOf(t) ==
    CASE t = "Flat Casket" -> "flatCaskets"
      [] t = "Fish Coffin" -> "fishCoffins"
      [] t = "Dome Casket" -> "domeCaskets"
      [] OTHER -> "none"

\* the Coffin Type select
SoChangeType ==
    /\ app = "single"
    /\ soEdits < MaxChanges
    /\ \E t \in COFFIN_TYPES :
        /\ so.coffinType # t
        /\ so' = [so EXCEPT !.coffinType = t]
    /\ soEdits' = soEdits + 1
    /\ UNCHANGED <<app, notSingle, soIssues, soLogged>>

\* a control of the rendered card changes a field of its item 0; the
\* quantity input is read-only
SoChangeItem ==
    /\ app = "single"
    /\ soEdits < MaxChanges
    /\ CardOf(so.coffinType) \in SoLists
    /\ LET l == CardOf(so.coffinType) IN
       \E f \in DOMAIN so[l][1] \ {"quantity"} : \E x \in ItemInputs(f) :
        /\ Rendered(so[l][1], f)
        /\ so[l][1][f] # x
        /\ so' = [so EXCEPT ![l][1][f] = x]
    /\ soEdits' = soEdits + 1
    /\ UNCHANGED <<app, notSingle, soIssues, soLogged>>

\* Save Order
SoSubmit ==
    /\ app = "single"
    /\ soIssues' = schema1(so)
    /\ soLogged' = IF schema1(so) = {} THEN Some(so) ELSE soLogged
    /\ UNCHANGED <<app, notSingle, so, soEdits>>

\* the Reset button
SoReset ==
    /\ app = "single"
    /\ so # defaultSingle \/ soIssues # {}
    /\ so' = defaultSingle
    /\ soIssues' = {}
    /\ UNCHANGED <<app, notSingle, soLogged, soEdits>>

InitSingle ==
    /\ so \in {defaultSingle, validSingle}
    /\ soIssues = {}
    /\ soLogged = Absent
    /\ soEdits = 0

NextSingle ==
    \/ SoChangeType
    \/ SoChangeItem
    \/ SoSubmit
    \/ SoReset

----------------------------------------------------------------------------
\* Casket / coffin intake form (src/Stock_Receipt.tsx, CasketForm)

TYPE_OPTIONS == {"Ordinary Fish", "1 Tier", "2 Tier", "3 Tier", "Cheap Dome",
                 "Solid Dome", "Other"}
MATERIAL_OPTIONS == {"Zimtex", "Superwood", "Zimtex/Superwood Mix", "Other"}
EXTERIOR_FINISH_OPTIONS == {"Gloss Painted"}
COLOUR_OPTIONS == {"White", "Brown", "Lemonade", "Other"}
INTERIOR_FINISH_OPTIONS == {"Polyester", "Other"}
HARDWARE_OPTIONS == {"4 Gold Plated Handles", "Drop Handles"}

\* Number(v) of the price input's text
NumberOf(s) ==
    CASE s = "100" -> Num(100, 0)
      [] s = "0" -> Num(0, 0)
      [] OTHER -> NaN

\* price: z.preprocess(v => v === "" ? undefined : Number(v),
\*                     z.number().positive(...)).refine(v => v !== undefined)
priceSchema(raw) ==
    LET v == IF raw = "" THEN NumUndefined ELSE NumberOf(raw)
        inner == IF v = NumUndefined THEN {Issue(<<>>, "Required", TRUE)}
                 ELSE IF ~IsNumber(v) THEN {Issue(<<>>, "Expected number, received nan", TRUE)}
                 ELSE IF v[1] > 0 \/ (v[1] = 0 /\ v[2] > 0) THEN {}
                 ELSE {Issue(<<>>, "Price must be > 0", FALSE)}
    IN refine(inner, v # NumUndefined, <<>>, "Price is required")

\* schema.safeParse(v).error.issues of the casket form
casketSchema(v) ==
    At(<<"type">>, stringMin1(v.type, "Type is required"))
    \cup At(<<"name">>, stringMin1(v.name, "Name is required"))
    \cup At(<<"price">>, priceSchema(v.price))
    \cup At(<<"material">>, stringMin1(v.material, "Material is required"))
    \cup At(<<"exteriorFinish">>, stringMin1(v.exteriorFinish, "Exterior Finish is required"))
    \cup At(<<"colour">>, stringMin1(v.colour, "Colour is required"))
    \cup At(<<"interiorFinish">>, stringMin1(v.interiorFinish, "Interior Finish is required"))

defaultCasket ==
    [type |-> "", typeOther |-> <<>>, name |-> "", price |-> Undefined,
     material |-> "", materialOther |-> <<>>, exteriorFinish |-> "Gloss Painted",
     colour |-> "", colourOther |-> <<>>, interiorFinish |-> "",
     interiorFinishOther |-> <<>>, hardware |-> <<>>]

\* a form filled in completely
filledCasket ==
    [type |-> "1 Tier", typeOther |-> <<>>, name |-> "Classic Dome", price |-> "100",
     material |-> "Zimtex", materialOther |-> <<>>, exteriorFinish |-> "Gloss Painted",
     colour |-> "White", colourOther |-> <<>>, interiorFinish |-> "Polyester",
     interiorFinishOther |-> <<>>, hardware |-> <<>>]

\* what the user selects or types into a field of the casket form
CasketInputs(f) ==
    CASE f = "type" -> {"1 Tier", "Other"}
      [] f = "material" -> {"Zimtex", "Other"}
      [] f = "exteriorFinish" -> EXTERIOR_FINISH_OPTIONS
      [] f = "colour" -> {"White", "Other"}
      [] f = "interiorFinish" -> {"Polyester", "Other"}
      [] f \in {"typeOther", "materialOther", "colourOther", "interiorFinishOther"}
            -> OtherTexts
      [] f = "name" -> {"", "Classic Dome"}
      [] f = "price" -> {"", "0", "100"}
      [] f = "hardware" -> {}

\* the companion input is rendered only while its select shows "Other"
CasketRendered(v, f) ==
    CASE f = "typeOther" -> v.type = "Other"
      [] f = "materialOther" -> v.material = "Other"
      [] f = "colourOther" -> v.colour = "Other"
      [] f = "interiorFinishOther" -> v.interiorFinish = "Other"
      [] OTHER -> TRUE

\* a select or an input changes its field
CkChange ==
    /\ app = "casket"
    /\ ckEdits < MaxChanges
    /\ \E f \in DOMAIN ck : \E x \in CasketInputs(f) :
        /\ CasketRendered(ck, f)
        /\ ck[f] # x
        /\ ck' = [ck EXCEPT ![f] = x]
    /\ ckEdits' = ckEdits + 1
    /\ UNCHANGED <<app, notCasket, ckIssues, ckSaved, ckSubmitting, successOpen>>

\* HardwareMultiSelect toggles an option
CkToggleHardware ==
    /\ app = "casket"
    /\ ckEdits < MaxChanges
    /\ \E item \in HARDWARE_OPTIONS :
        ck' = [ck EXCEPT !.hardware =
                  IF \E n \in 1..Len(@) : @[n] = item
                  THEN SelectSeq(@, LAMBDA h : h # item)
                  ELSE Append(@, item)]
    /\ ckEdits' = ckEdits + 1
    /\ UNCHANGED <<app, notCasket, ckIssues, ckSaved, ckSubmitting, successOpen>>

\* the Save button (disabled={isSubmitting}): handleSubmit runs the resolver
\* and, when the record is accepted, onSubmit up to its await
CkSubmit ==
    /\ app = "casket"
    /\ ~ckSubmitting
    /\ ckIssues' = casketSchema(ck)
    /\ IF casketSchema(ck) = {}
       THEN /\ ckSaved' = Some([ck EXCEPT !.price = NumberOf(@)])
            /\ ckSubmitting' = TRUE
       ELSE UNCHANGED <<ckSaved, ckSubmitting>>
    /\ UNCHANGED <<app, notCasket, ck, successOpen, ckEdits>>

\* onSubmit after its await: setSuccessOpen(true); reset()
CkSubmitDone ==
    /\ app = "casket"
    /\ ckSubmitting
    /\ successOpen' = TRUE
    /\ ck' = defaultCasket
    /\ ckIssues' = {}
    /\ ckSubmitting' = FALSE
    /\ UNCHANGED <<app, notCasket, ckSaved, ckEdits>>

\* the Reset button
CkReset ==
    /\ app = "casket"
    /\ ck # defaultCasket \/ ckIssues # {}
    /\ ck' = defaultCasket
    /\ ckIssues' = {}
    /\ UNCHANGED <<app, notCasket, ckSaved, ckSubmitting, successOpen, ckEdits>>

\* the success dialog's Close button
CkCloseDialog ==
    /\ app = "casket"
    /\ successOpen
    /\ successOpen' = FALSE
    /\ UNCHANGED <<app, notCasket, ck, ckIssues, ckSaved, ckSubmitting, ckEdits>>

InitCasket ==
    /\ ck \in {defaultCasket, filledCasket}
    /\ ckIssues = {}
    /\ ckSaved = Absent
    /\ ckSubmitting = FALSE
    /\ successOpen = FALSE
    /\ ckEdits = 0

NextCasket ==
    \/ CkChange
    \/ CkToggleHardware
    \/ CkSubmit
    \/ CkSubmitDone
    \/ CkReset
    \/ CkCloseDialog

----------------------------------------------------------------------------
\* Downtime report form (src/Downtime.tsx)

departments == {"Cutting", "Assembly", "Sanding", "Spraying", "Upholstery/Lining", "Other"}

reasons == {"Raw material out of stock", "No electricity", "No workforce",
            "Machine breakdown", "Maintenance", "Management directive", "Other"}

\* z.enum(options, { required_error })
zEnum(options, x, required_error) ==
    IF x = Undefined THEN {Issue(<<>>, required_error, TRUE)}
    ELSE IF x \notin options THEN {Issue(<<>>, "Invalid enum value", TRUE)}
    ELSE {}

\* Number.isNaN(new Date(`${d}T${t}`).getTime()) for the strings a date
\* input and a time input produce
InvalidDateTime(d, t) == d = "" \/ t = ""

\* FormSchema.safeParse(v).error.issues of the downtime form; superRefine
\* runs unless the object has a type error
DowntimeSchema(v) ==
    LET obj == At(<<"reporter">>,
                  IF Len(v.reporter) < 2
                  THEN {Issue(<<>>, "Please enter the reporter's name.", FALSE)} ELSE {})
               \cup At(<<"department">>, zEnum(departments, v.department, "Select a department."))
               \cup At(<<"reason">>, zEnum(reasons, v.reason, "Select a reason."))
               \cup At(<<"startDate">>, stringMin1(v.startDate, "Select a start date."))
               \cup At(<<"startTime">>, stringMin1(v.startTime, "Select a start time."))
        added ==
            (IF v.department = "Other" /\ ~TrimTruthy(v.departmentOther)
             THEN {Issue(<<"departmentOther">>, "Please specify the department.", FALSE)}
             ELSE {})
            \cup (IF v.reason = "Other" /\ ~TrimTruthy(v.reasonOther)
                  THEN {Issue(<<"reasonOther">>, "Please specify the reason.", FALSE)}
                  ELSE {})
            \cup (IF InvalidDateTime(v.startDate, v.startTime)
                  THEN {Issue(<<"startTime">>, "Invalid date/time.", FALSE)}
                  ELSE {})
    IN IF Aborted(obj) THEN obj ELSE obj \cup added

defaultDowntime ==
    [reporter |-> <<>>, department |-> Undefined, departmentOther |-> <<>>,
     reason |-> Undefined, reasonOther |-> <<>>, startDate |-> "", startTime |-> "",
     details |-> <<>>, immediateAction |-> <<>>]

\* a form filled in completely
filledDowntime ==
    [reporter |-> <<"J", "o">>, department |-> "Cutting", departmentOther |-> <<>>,
     reason |-> "Maintenance", reasonOther |-> <<>>, startDate |-> "2025-09-16",
     startTime |-> "09:00", details |-> <<>>, immediateAction |-> <<>>]

\* what the user selects or types into a field of the downtime form
DowntimeInputs(f) ==
    CASE f = "reporter" -> {<<>>, <<"J", "o">>}
      [] f = "department" -> {"Cutting", "Other"}
      [] f = "reason" -> {"Maintenance", "Other"}
      [] f \in {"departmentOther", "reasonOther"} -> OtherTexts
      [] f = "startDate" -> {"", "2025-09-16"}
      [] f = "startTime" -> {"", "09:00"}
      [] f \in {"details", "immediateAction"} -> {<<>>, <<"x">>}

\* the companion input is rendered only while its select shows "Other"
DowntimeRendered(v, f) ==
    CASE f = "departmentOther" -> v.department = "Other"
      [] f = "reasonOther" -> v.reason = "Other"
      [] OTHER -> TRUE

\* s || null
OrNull(s) == IF s = <<>> THEN <<Null>> ELSE s

\* the payload onSubmit builds; an option's name is a one-element text
DowntimePayload(v) ==
    [reporter |-> trim(v.reporter),
     department |-> IF v.department = "Other" THEN trim(v.departmentOther)
                    ELSE <<v.department>>,
     reason |-> IF v.reason = "Other" THEN trim(v.reasonOther) ELSE <<v.reason>>,
     startISO |-> <<v.startDate, "T", v.startTime>>,
     details |-> OrNull(trim(v.details)),
     immediateAction |-> OrNull(trim(v.immediateAction))]

\* a control changes its field
DtChange ==
    /\ app = "downtime"
    /\ dtEdits < MaxChanges
    /\ \E f \in DOMAIN dt : \E x \in DowntimeInputs(f) :
        /\ DowntimeRendered(dt, f)
        /\ dt[f] # x
        /\ dt' = [dt EXCEPT ![f] = x]
    /\ dtEdits' = dtEdits + 1
    /\ UNCHANGED <<app, notDowntime, dtIssues, submitting, open, submittedData,
                   dtCall, dtRecords, dtAlert, dtCalls>>

\* the Submit button (disabled={submitting}): handleSubmit runs the resolver
\* and, when the record is accepted, onSubmit up to its await
DtSubmit ==
    /\ app = "downtime"
    /\ ~submitting
    /\ dtIssues' = DowntimeSchema(dt)
    /\ IF DowntimeSchema(dt) = {}
       THEN /\ dtCalls < MaxSaves
            /\ submitting' = TRUE
            /\ dtCall' = Some(DowntimePayload(dt))
            /\ dtCalls' = dtCalls + 1
       ELSE /\ dtIssues' # dtIssues
            /\ UNCHANGED <<submitting, dtCall, dtCalls>>
    /\ UNCHANGED <<app, notDowntime, dt, open, submittedData, dtRecords, dtAlert, dtEdits>>

\* saveDowntime stores the record and returns ok: true; onSubmit shows the
\* dialog and resets the form
DtSaveOk ==
    /\ app = "downtime"
    /\ dtCall # Absent
    /\ dtRecords' = Append(dtRecords, dtCall[1])
    /\ submitting' = FALSE
    /\ submittedData' = dtCall
    /\ open' = TRUE
    /\ dt' = defaultDowntime
    /\ dtIssues' = {}
    /\ dtCall' = Absent
    /\ UNCHANGED <<app, notDowntime, dtAlert, dtCalls, dtEdits>>

\* a failure that leaves the form submitting
DtSaveFailStuck ==
    /\ app = "downtime"
    /\ dtCall # Absent
    /\ dtAlert' = "Failed to save"
    /\ dtCall' = Absent
    /\ UNCHANGED <<app, notDowntime, dt, dtIssues, submitting, open, submittedData, dtRecords,
                   dtCalls, dtEdits>>

\* localStorage throws inside saveDowntime, which returns ok: false; onSubmit
\* alerts
DtSaveFail ==
    /\ app = "downtime"
    /\ dtCall # Absent
    /\ submitting' = FALSE
    /\ dtAlert' = "Failed to save"
    /\ dtCall' = Absent
    /\ UNCHANGED <<app, notDowntime, dt, dtIssues, open, submittedData, dtRecords,
                   dtCalls, dtEdits>>

\* the dialog is closed
DtCloseDialog ==
    /\ app = "downtime"
    /\ open
    /\ open' = FALSE
    /\ UNCHANGED <<app, notDowntime, dt, dtIssues, submitting, submittedData, dtCall,
                   dtRecords, dtAlert, dtCalls, dtEdits>>

InitDowntime ==
    /\ dt \in {defaultDowntime, filledDowntime}
    /\ dtIssues = {}
    /\ submitting = FALSE
    /\ open = FALSE
    /\ submittedData = Absent
    /\ dtCall = Absent
    /\ dtRecords = <<>>
    /\ dtAlert = ""
    /\ dtCalls = 0
    /\ dtEdits = 0

NextDowntime ==
    \/ DtChange
    \/ DtSubmit
    \/ DtSaveOk
    \/ DtSaveFail
    \/ DtCloseDialog

----------------------------------------------------------------------------
\* Employee details form (src/Employee_Details.tsx)

DigitChars == {"0", "1", "2", "3", "4", "5", "6", "7", "8", "9"}
LetterChars == {"a", "b", "c", "d", "e", "j", "m", "n", "o", "x"}

\* /^(\+?[0-9]{7,15})$/
phoneRegex(s) ==
    LET body == IF s # <<>> /\ s[1] = "+" THEN Tail(s) ELSE s
    IN Len(body) >= 7 /\ Len(body) <= 15 /\ \A n \in 1..Len(body) : body[n] \in DigitChars

\* /^\d{2}:\d{2}$/
timeRegex(s) ==
    /\ Len(s) = 5
    /\ s[3] = ":"
    /\ \A n \in {1, 2, 4, 5} : s[n] \in DigitChars

\* the labels of a domain: the texts between its dots
RECURSIVE labels(_)
labels(s) ==
    IF \A n \in 1..Len(s) : s[n] # "." THEN <<s>>
    ELSE LET d == CHOOSE n \in 1..Len(s) : s[n] = "." /\ \A m \in 1..(n - 1) : s[m] # "."
         IN <<SubSeq(s, 1, d - 1)>> \o labels(SubSeq(s, d + 1, Len(s)))

\* zod's email pattern:
\* /^(?!\.)(?!.*\.\.)([A-Z0-9_'+\-\.]*)[A-Z0-9_+-]@([A-Z0-9][A-Z0-9\-]*\.)+[A-Z]{2,}$/i
emailRegex(s) ==
    LET ats == {n \in 1..Len(s) : s[n] = "@"}
        Word == LetterChars \cup DigitChars \cup {"_", "+", "-"}
    IN /\ Cardinality(ats) = 1
       /\ LET p == CHOOSE n \in ats : TRUE
              local == SubSeq(s, 1, p - 1)
              ls_ == labels(SubSeq(s, p + 1, Len(s)))
          IN /\ local # <<>>
             /\ local[1] # "."
             /\ \A n \in 1..(Len(s) - 1) : ~(s[n] = "." /\ s[n + 1] = ".")
             /\ \A n \in 1..Len(local) : local[n] \in Word \cup {"'", "."}
             /\ local[Len(local)] \in Word
             /\ Len(ls_) >= 2
             /\ \A k \in 1..(Len(ls_) - 1) :
                   /\ ls_[k] # <<>>
                   /\ ls_[k][1] \in LetterChars \cup DigitChars
                   /\ \A n \in 1..Len(ls_[k]) :
                         ls_[k][n] \in LetterChars \cup DigitChars \cup {"-"}
             /\ Len(ls_[Len(ls_)]) >= 2
             /\ \A n \in 1..Len(ls_[Len(ls_)]) : ls_[Len(ls_)][n] \in LetterChars

\* z.string().regex(re, message) and z.string().email(message)
stringMatches(x, ok, message) ==
    IF x = TextUndefined THEN {Issue(<<>>, "Required", TRUE)}
    ELSE IF ~ok THEN {Issue(<<>>, message, FALSE)} ELSE {}

\* a Date is <<d>>, the day it names counted from today; undefined is <<>>
DateUndefined == <<>>
\* new Date("invalid")
InvalidDate == <<"Invalid", "Date">>

\* z.date({ required_error })
zDate(x, required_error) ==
    IF x = DateUndefined THEN {Issue(<<>>, required_error, TRUE)}
    ELSE IF x = InvalidDate THEN {Issue(<<>>, "Invalid date", TRUE)}
    ELSE {}

\* z.date({ required_error }).max(new Date(), message)
zDateMaxNow(x, required_error, message) ==
    IF x = DateUndefined THEN {Issue(<<>>, required_error, TRUE)}
    ELSE IF x[1] > 0 THEN {Issue(<<>>, message, FALSE)} ELSE {}

Relationships == {"Husband", "Wife", "Son", "Daughter", "Mother", "Dad", "Other"}

emergencySchema(v) ==
    At(<<"firstName">>, stringMin1(v.firstName, "Required"))
    \cup At(<<"lastName">>, stringMin1(v.lastName, "Required"))
    \cup At(<<"relationship">>, zEnum(Relationships, v.relationship, "Required"))
    \cup At(<<"contactNumber">>,
            stringMatches(v.contactNumber, phoneRegex(v.contactNumber), "Invalid phone number"))
    \cup At(<<"email">>, stringMatches(v.email, emailRegex(v.email), "Invalid email"))

\* formSchema.safeParse(v).error.issues of the employee form; profilePhoto is
\* undefined or a File, which the refinement accepts
formSchema(v) ==
    At(<<"firstName">>, stringMin1(v.firstName, "Required"))
    \cup At(<<"lastName">>, stringMin1(v.lastName, "Required"))
    \cup At(<<"dateOfBirth">>,
            zDateMaxNow(v.dateOfBirth, "Date of birth is required",
                        "Date cannot be in the future"))
    \cup At(<<"gender">>, zEnum({"Male", "Female"}, v.gender, "Required"))
    \cup At(<<"maritalStatus">>,
            zEnum({"Single", "Married", "Partner", "Other"}, v.maritalStatus, "Required"))
    \cup At(<<"nationality">>, zEnum({"Zimbabwean", "Other"}, v.nationality, "Required"))
    \cup At(<<"phone">>, stringMatches(v.phone, phoneRegex(v.phone), "Invalid phone number"))
    \cup At(<<"email">>, stringMatches(v.email, emailRegex(v.email), "Invalid email"))
    \cup At(<<"address1">>, stringMin1(v.address1, "Required"))
    \cup At(<<"emergency">>, emergencySchema(v.emergency))
    \cup At(<<"employeeId">>, stringMin1(v.employeeId, "Required"))
    \cup At(<<"jobTitle">>, stringMin1(v.jobTitle, "Required"))
    \cup At(<<"dateOfJoiningDate">>, zDate(v.dateOfJoiningDate, "Date of joining is required"))
    \cup At(<<"dateOfJoiningTime">>,
            stringMatches(v.dateOfJoiningTime, timeRegex(v.dateOfJoiningTime), "Select time"))
    \cup At(<<"employmentType">>,
            zEnum({"Full-time", "Part-time", "Contract", "Intern"}, v.employmentType, "Required"))
    \cup At(<<"workLocation">>,
            zEnum({"Mutapa Store", "Mutapa Workshop", "Shurugwi Road Workshop", "Other"},
                  v.workLocation, "Required"))
    \cup At(<<"status">>,
            zEnum({"Active", "On Leave", "Resigned", "Retired", "Other"}, v.status, "Required"))

defaultEmployee ==
    [profilePhoto |-> Undefined, firstName |-> Undefined, lastName |-> Undefined,
     dateOfBirth |-> DateUndefined, gender |-> "Male", maritalStatus |-> "Single",
     nationality |-> "Zimbabwean", phone |-> TextUndefined, email |-> TextUndefined,
     address1 |-> Undefined, address2 |-> "",
     emergency |-> [firstName |-> "", lastName |-> "", relationship |-> "Other",
                    contactNumber |-> <<>>, email |-> <<>>],
     employeeId |-> Undefined, jobTitle |-> Undefined,
     dateOfJoiningDate |-> DateUndefined, dateOfJoiningTime |-> TextUndefined,
     employmentType |-> "Full-time", workLocation |-> "Mutapa Store", status |-> "Active",
     skills |-> "", certifications |-> ""]

PhoneText == <<"+", "2", "6", "3", "7", "7", "1", "2", "3", "4", "5", "6", "7">>
EmailText == <<"j", "@", "e", "x", ".", "c", "o", "m">>
TimeText == <<"0", "8", ":", "0", "0">>

\* the record the self-test parses
filledEmployee ==
    [profilePhoto |-> Undefined, firstName |-> "Jane", lastName |-> "Doe",
     dateOfBirth |-> <<-12000>>, gender |-> "Female", maritalStatus |-> "Single",
     nationality |-> "Zimbabwean", phone |-> PhoneText, email |-> EmailText,
     address1 |-> "123 Street", address2 |-> "",
     emergency |-> [firstName |-> "John", lastName |-> "Doe", relationship |-> "Husband",
                    contactNumber |-> PhoneText, email |-> EmailText],
     employeeId |-> "EMP-001", jobTitle |-> "Technician",
     dateOfJoiningDate |-> <<-600>>, dateOfJoiningTime |-> TimeText,
     employmentType |-> "Full-time", workLocation |-> "Mutapa Store", status |-> "Active",
     skills |-> "Hydraulics", certifications |-> "OSHA"]

\* what the user selects or types into a field of the employee form
EmployeeInputs(f) ==
    CASE f = "firstName" -> {"", "Jane"}
      [] f = "dateOfBirth" -> {<<1>>, <<-12000>>}
      [] f = "phone" -> {<<"1", "2", "3">>, PhoneText}
      [] f = "emergency.email" -> {<<"j", "@", "e">>, EmailText}
      [] f = "dateOfJoiningTime" -> {<<>>, TimeText}
      [] OTHER -> {}

\* the value of the two digits of s that start at n
TwoDigits(s, n) ==
    LET value(c) == CHOOSE d \in 0..9 :
            <<"0", "1", "2", "3", "4", "5", "6", "7", "8", "9">>[d + 1] = c
    IN 10 * value(s[n]) + value(s[n + 1])

\* a Date with its hours and minutes set from "HH:mm": <<day, hours, minutes>>
combineDateAndTime(date, timeHHmm) ==
    <<date[1], TwoDigits(timeHHmm, 1), TwoDigits(timeHHmm, 4)>>

\* the payload onSubmit posts
EmployeePayload(v, photoBase64) ==
    [firstName |-> v.firstName, lastName |-> v.lastName,
     dateOfBirth |-> <<v.dateOfBirth[1], 0, 0>>, gender |-> v.gender,
     maritalStatus |-> v.maritalStatus, nationality |-> v.nationality,
     contact |-> [phone |-> v.phone, email |-> v.email, address1 |-> v.address1,
                  address2 |-> IF v.address2 = "" THEN Null ELSE v.address2],
     emergencyContact |-> v.emergency,
     employment |-> [employeeId |-> v.employeeId, jobTitle |-> v.jobTitle,
                     dateOfJoining |->
                         combineDateAndTime(v.dateOfJoiningDate, v.dateOfJoiningTime),
                     employmentType |-> v.employmentType,
                     workLocation |-> v.workLocation, status |-> v.status],
     experience |-> [skills |-> v.skills, certifications |-> v.certifications],
     profilePhotoBase64 |-> photoBase64]

\* a control changes a field of the form
EmChange ==
    /\ app = "employee"
    /\ emEdits < MaxChanges
    /\ \E f \in DOMAIN em \ {"emergency", "profilePhoto"} : \E x \in EmployeeInputs(f) :
        /\ em[f] # x
        /\ em' = [em EXCEPT ![f] = x]
    /\ emEdits' = emEdits + 1
    /\ UNCHANGED <<app, notEmployee, emIssues, emCalls, emSaves, preview, emAlert>>

\* a control of the emergency contact card changes its field
EmChangeEmergency ==
    /\ app = "employee"
    /\ emEdits < MaxChanges
    /\ \E f \in DOMAIN em.emergency : \E x \in EmployeeInputs("emergency." \o f) :
        /\ em.emergency[f] # x
        /\ em' = [em EXCEPT !.emergency[f] = x]
    /\ emEdits' = emEdits + 1
    /\ UNCHANGED <<app, notEmployee, emIssues, emCalls, emSaves, preview, emAlert>>

\* the file input picks a file or is emptied; the effect on the watched
\* photo sets or clears the preview
EmChoosePhoto ==
    /\ app = "employee"
    /\ emEdits < MaxChanges
    /\ \E x \in {Undefined, "File"} :
        /\ em.profilePhoto # x
        /\ em' = [em EXCEPT !.profilePhoto = x]
        /\ preview' = (x = "File")
    /\ emEdits' = emEdits + 1
    /\ UNCHANGED <<app, notEmployee, emIssues, emCalls, emSaves, emAlert>>

\* Save Record: handleSubmit runs the resolver and, when the record is
\* accepted, onSubmit up to its first await
EmSubmit ==
    /\ app = "employee"
    /\ LET issues == formSchema(em) IN
        /\ emIssues' = issues
        /\ IF issues = {}
           THEN /\ emSaves < MaxSaves
                /\ emSaves' = emSaves + 1
                /\ emCalls' = Append(emCalls,
                       [payload |-> EmployeePayload(em, Undefined),
                        st |-> IF em.profilePhoto = "File" THEN "reading" ELSE "posting"])
           ELSE /\ issues # emIssues
                /\ UNCHANGED <<emCalls, emSaves>>
    /\ UNCHANGED <<app, notEmployee, em, preview, emAlert, emEdits>>

\* the invocations without the i-th, which has settled
Settled(i) == SubSeq(emCalls, 1, i - 1) \o SubSeq(emCalls, i + 1, Len(emCalls))

\* fileToBase64: reader.onload; the payload is complete and fetch starts
EmPhotoRead ==
    /\ app = "employee"
    /\ \E i \in 1..Len(emCalls) :
        /\ emCalls[i].st = "reading"
        /\ emCalls' = [emCalls EXCEPT ![i].st = "posting",
                                      ![i].payload.profilePhotoBase64 = "data:"]
    /\ UNCHANGED <<app, notEmployee, em, emIssues, emSaves, preview, emAlert, emEdits>>

\* fileToBase64: reader.onerror rejects outside the try block; onSubmit
\* rejects and nothing is shown
EmPhotoFail ==
    /\ app = "employee"
    /\ \E i \in 1..Len(emCalls) :
        /\ emCalls[i].st = "reading"
        /\ emCalls' = Settled(i)
    /\ UNCHANGED <<app, notEmployee, em, emIssues, emSaves, preview, emAlert, emEdits>>

\* fetch resolves with res.ok: alert, form.reset(), setPreview(undefined)
EmFetchOk ==
    /\ app = "employee"
    /\ \E i \in 1..Len(emCalls) :
        /\ emCalls[i].st = "posting"
        /\ emCalls' = Settled(i)
    /\ emAlert' = "Saved successfully"
    /\ em' = defaultEmployee
    /\ emIssues' = {}
    /\ preview' = FALSE
    /\ UNCHANGED <<app, notEmployee, emSaves, emEdits>>

\* fetch rejects, or resolves with a response that is not ok: the catch
\* block alerts the error's message
EmFetchFail ==
    /\ app = "employee"
    /\ \E i \in 1..Len(emCalls) :
        /\ emCalls[i].st = "posting"
        /\ emCalls' = Settled(i)
    /\ \E message \in {"Failed to save", "Failed to fetch"} : emAlert' = message
    /\ UNCHANGED <<app, notEmployee, em, emIssues, emSaves, preview, emEdits>>

\* the Reset button
EmReset ==
    /\ app = "employee"
    /\ em # defaultEmployee \/ emIssues # {}
    /\ em' = defaultEmployee
    /\ emIssues' = {}
    /\ preview' = FALSE
    /\ UNCHANGED <<app, notEmployee, emCalls, emSaves, emAlert, emEdits>>

InitEmployee ==
    /\ em \in {defaultEmployee, filledEmployee}
    /\ emIssues = {}
    /\ emCalls = <<>>
    /\ emSaves = 0
    /\ preview = FALSE
    /\ emAlert = ""
    /\ emEdits = 0

NextEmployee ==
    \/ EmChange
    \/ EmChangeEmergency
    \/ EmChoosePhoto
    \/ EmSubmit
    \/ EmPhotoRead
    \/ EmPhotoFail
    \/ EmFetchOk
    \/ EmFetchFail
    \/ EmReset

----------------------------------------------------------------------------
\* Stock receipt form (src/Stock_Receipt.tsx:1-345)

\* A finite number of this form is <<n, 3>>: the double nearest to n / 1000,
\* which is what Number() gives for the decimal text of n / 1000
Milli(n) == <<n, 3>>
Infinity == <<"Infinity">>
NegInfinity == <<"-Infinity">>

\* A finite number beyond that range is written as the double it is,
\* m * 2^e negated if neg: <<neg, m, e>>
Binary(neg, m, e) == <<neg, m, e>>

\* Number.isFinite
IsFinite(x) == Len(x) \in {2, 3}

\* Natural numbers of any size: the limbs in base 2^15, least significant
\* first, without a leading zero limb
Limb == 32768

RECURSIVE BigNorm(_)
BigNorm(a) ==
    IF a # <<>> /\ a[Len(a)] = 0 THEN BigNorm(SubSeq(a, 1, Len(a) - 1)) ELSE a

RECURSIVE BigFromInt(_)
BigFromInt(n) == IF n = 0 THEN <<>> ELSE <<n % Limb>> \o BigFromInt(n \div Limb)

RECURSIVE BigToInt(_)
BigToInt(a) == IF a = <<>> THEN 0 ELSE Head(a) + Limb * BigToInt(Tail(a))

RECURSIVE BigAdd(_, _, _)
BigAdd(a, b, carry) ==
    IF a = <<>> /\ b = <<>> THEN (IF carry = 0 THEN <<>> ELSE <<carry>>)
    ELSE LET x == IF a = <<>> THEN 0 ELSE Head(a)
             y == IF b = <<>> THEN 0 ELSE Head(b)
             s == x + y + carry
         IN  <<s % Limb>> \o BigAdd(IF a = <<>> THEN a ELSE Tail(a),
                                    IF b = <<>> THEN b ELSE Tail(b), s \div Limb)

RECURSIVE BigMulSmall(_, _, _)
BigMulSmall(a, m, carry) ==
    IF a = <<>> THEN (IF carry = 0 THEN <<>> ELSE <<carry>>)
    ELSE LET s == Head(a) * m + carry
         IN  <<s % Limb>> \o BigMulSmall(Tail(a), m, s \div Limb)

RECURSIVE BigMul(_, _)
BigMul(a, b) ==
    IF b = <<>> \/ a = <<>> THEN <<>>
    ELSE BigNorm(BigAdd(BigMulSmall(a, Head(b), 0), <<0>> \o BigMul(a, Tail(b)), 0))

\* <<quotient, remainder>> of a by d, d < 2^15
RECURSIVE BigDivSmall(_, _)
BigDivSmall(a, d) ==
    IF a = <<>> THEN <<(<<>>), 0>>
    ELSE LET hi == BigDivSmall(Tail(a), d)
             s == hi[2] * Limb + Head(a)
         IN  <<BigNorm(<<s \div d>> \o hi[1]), s % d>>

RECURSIVE Pow2(_)
Pow2(k) == IF k = 0 THEN 1 ELSE 2 * Pow2(k - 1)

RECURSIVE BitLength(_)
BitLength(n) == IF n = 0 THEN 0 ELSE 1 + BitLength(n \div 2)

BigBits(a) == IF a = <<>> THEN 0 ELSE 15 * (Len(a) - 1) + BitLength(a[Len(a)])

BigShiftLeft(a, k) ==
    IF a = <<>> THEN a
    ELSE [i \in 1..(k \div 15) |-> 0] \o BigMulSmall(a, Pow2(k % 15), 0)

\* <<floor(a / 2^k), whether a set bit was dropped>>
BigShiftRight(a, k) ==
    LET limbs == k \div 15
        low == SubSeq(a, 1, IF limbs < Len(a) THEN limbs ELSE Len(a))
        high == BigDivSmall(SubSeq(a, limbs + 1, Len(a)), Pow2(k % 15))
    IN  <<high[1], high[2] # 0 \/ \E i \in 1..Len(low) : low[i] # 0>>

BigOdd(a) == a # <<>> /\ a[1] % 2 = 1

\* a >= b
RECURSIVE BigGeq(_, _)
BigGeq(a, b) ==
    IF Len(a) # Len(b) THEN Len(a) > Len(b)
    ELSE IF a = <<>> THEN TRUE
    ELSE IF a[Len(a)] # b[Len(b)] THEN a[Len(a)] > b[Len(b)]
    ELSE BigGeq(SubSeq(a, 1, Len(a) - 1), SubSeq(b, 1, Len(b) - 1))

RECURSIVE BigPow10(_)
BigPow10(k) == IF k = 0 THEN <<1>> ELSE BigMulSmall(BigPow10(k - 1), 10, 0)

\* IEEE 754 binary64: the double is m * 2^e, negated if neg, with m < 2^53
\* (within the bounds no value is subnormal), or an infinity
Double(neg, m, e) == [neg |-> neg, m |-> m, e |-> e]
InfiniteDouble(neg) == [neg |-> neg, inf |-> TRUE]
IsInfinite(x) == "inf" \in DOMAIN x

\* the largest exponent of a finite double: every finite double is below 2^1024
MaxExponent == 1024

\* m * 2^e, m < 2^54, is beyond the finite doubles
Overflow(m, e) == BigBits(m) + e > MaxExponent

\* the double nearest to n * 2^e, ties to the even significand; an infinity
\* when that is beyond the finite doubles
RoundToDouble(neg, n, e) ==
    LET drop == BigBits(n) - 53
        s == BigShiftRight(n, drop - 1)
        q == BigDivSmall(s[1], 2)
        up == q[2] = 1 /\ (s[2] \/ BigOdd(q[1]))
        m == IF drop <= 0 THEN n ELSE IF up THEN BigAdd(q[1], <<1>>, 0) ELSE q[1]
        x == IF drop <= 0 THEN e ELSE e + drop
    IN  IF Overflow(m, x) THEN InfiniteDouble(neg) ELSE Double(neg, m, x)

\* the double a number <<n, 3>> stands for: the nearest to n / 1000
ToDouble(x) ==
    LET n == IF Len(x) = 3 THEN 0 ELSE IF x[1] < 0 THEN -x[1] ELSE x[1]
        big == BigFromInt(n)
        Quot(k) == BigDivSmall(BigShiftLeft(big, k), 1000)
        k0 == 63 - BigBits(big)
        k == IF BigBits(Quot(k0)[1]) > 53 THEN k0 - 1 ELSE k0
        q == Quot(k)
        up == 2 * q[2] > 1000 \/ (2 * q[2] = 1000 /\ BigOdd(q[1]))
    IN  IF Len(x) = 3 THEN Double(x[1], x[2], x[3])
        ELSE IF n = 0 THEN Double(FALSE, <<>>, 0)
        ELSE Double(x[1] < 0, IF up THEN BigAdd(q[1], <<1>>, 0) ELSE q[1], -k)

\* a product that keeps its first factor only
TimesFirstOnly(a, b) == RoundToDouble(a.neg, a.m, a.e)

\* q * p
Times(a, b) == RoundToDouble(a.neg # b.neg, BigMul(a.m, b.m), a.e + b.e)

\* x >= 10^21 in magnitude, x finite
AtLeast10To21(x) ==
    /\ BigBits(x.m) + x.e >= 70
    /\ BigGeq(BigShiftLeft(x.m, x.e), BigPow10(21))

\* Number(x.toFixed(2)): toFixed takes the integer n for which n / 100 - x
\* is closest to zero, the larger n of two, on the magnitude of x; Number()
\* of its text is the double nearest to n / 100 (-0 is written as 0). An
\* infinity, and a number of magnitude 10^21 or more, is written as
\* String(x) writes it, and Number() of that text is x again. (Within the
\* bounds a result below 10^21 is below 2^31 / 1000.)
toFixed2(x) ==
    IF IsInfinite(x) THEN (IF x.neg THEN NegInfinity ELSE Infinity)
    ELSE IF AtLeast10To21(x) THEN Binary(x.neg, x.m, x.e)
    ELSE LET cents == BigMulSmall(x.m, 100, 0)
             n == IF x.e >= 0 THEN BigShiftLeft(cents, x.e)
                  ELSE BigDivSmall(BigAdd(BigShiftRight(cents, -x.e - 1)[1], <<1>>, 0), 2)[1]
             c == BigToInt(n)
         IN  Milli(IF x.neg THEN -10 * c ELSE 10 * c)

calcTotalCost(qty, unitPrice) ==
    LET q == IF IsFinite(qty) THEN qty ELSE Milli(0)
        p == IF IsFinite(unitPrice) THEN unitPrice ELSE Milli(0)
    IN  toFixed2(Times(ToDouble(q), ToDouble(p)))

\* z.number({ invalid_type_error }): the type check
zNumber(x, invalid_type_error) ==
    IF x = NumUndefined THEN {Issue(<<>>, "Required", TRUE)}
    ELSE IF x = NaN THEN {Issue(<<>>, invalid_type_error, TRUE)}
    ELSE {}

\* Number.isInteger(x), x > 0 and x >= 0 of a number that passed the type check
IsInteger(x) ==
    \/ Len(x) = 2 /\ x[1] % 1000 = 0
    \/ Len(x) = 3 /\ (x[3] >= 0 \/ ~BigShiftRight(x[2], -x[3])[2])
Positive(x) ==
    \/ x = Infinity
    \/ Len(x) = 2 /\ x[1] > 0
    \/ Len(x) = 3 /\ ~x[1] /\ x[2] # <<>>
Nonnegative(x) ==
    \/ x = Infinity
    \/ Len(x) = 2 /\ x[1] >= 0
    \/ Len(x) = 3 /\ (~x[1] \/ x[2] = <<>>)

\* unitPrice and totalCost: z.number({...}).nonnegative(message)
nonnegativeNumber(x, invalid_type_error, message) ==
    IF zNumber(x, invalid_type_error) # {} THEN zNumber(x, invalid_type_error)
    ELSE IF Nonnegative(x) THEN {} ELSE {Issue(<<>>, message, FALSE)}

\* a quantity that only has to be a whole number
wholeNumber(x) ==
    IF zNumber(x, "Enter a quantity") # {} THEN zNumber(x, "Enter a quantity")
    ELSE IF IsInteger(x) THEN {} ELSE {Issue(<<>>, "Must be a whole number", FALSE)}

\* quantityReceived: z.number({...}).int(message).positive(message)
positiveInt(x) ==
    IF zNumber(x, "Enter a quantity") # {} THEN zNumber(x, "Enter a quantity")
    ELSE (IF IsInteger(x) THEN {} ELSE {Issue(<<>>, "Must be a whole number", FALSE)})
         \cup (IF Positive(x) THEN {} ELSE {Issue(<<>>, "Must be greater than 0", FALSE)})

\* stockReceiveSchema.safeParse(v).error.issues
stockReceiveSchema(v) ==
    At(<<"quantityReceived">>, positiveInt(v.quantityReceived))
    \cup At(<<"unitPrice">>,
            nonnegativeNumber(v.unitPrice, "Enter a unit price", "Cannot be negative"))
    \cup At(<<"totalCost">>,
            nonnegativeNumber(v.totalCost, "Total cost required",
                              "Number must be greater than or equal to 0"))
    \cup At(<<"location">>, stringMin1(v.location, "Select a location"))

defaultStock ==
    [quantityReceived |-> Milli(1000), unitPrice |-> Milli(0),
     totalCost |-> Milli(0), location |-> ""]

\* e.target.value of a number input: "" (written <<>>), the text of a
\* decimal (written as the number it names) or a text beyond the doubles
EmptyText == <<>>
HugeText == <<"1e999">>

\* Number(val)
NumberOfText(val) ==
    IF val = EmptyText THEN Milli(0) ELSE IF val = HugeText THEN Infinity ELSE val

parseNumber(val) ==
    LET n == NumberOfText(val) IN IF IsFinite(n) THEN n ELSE Milli(0)

\* what the user types into Quantity Received and into Unit Price
QuantityTexts == {EmptyText, Milli(3000), Milli(5500), Milli(-1000)}
PriceTexts == {EmptyText, Milli(1500), Milli(2345), Milli(-1000), HugeText}

\* the locations a page passes to the form, or none
LocationProps == {{}, {"MAIN_WH", "AISLE_3B"}}

\* Quantity Received onChange: field.onChange(parseNumber(e.target.value));
\* the change of the watched value schedules the total cost effect
SrChangeQuantity ==
    /\ app = "stock"
    /\ srEdits < MaxChanges
    /\ \E val \in QuantityTexts :
        /\ sr.quantityReceived # parseNumber(val)
        /\ sr' = [sr EXCEPT !.quantityReceived = parseNumber(val)]
    /\ srPending' = TRUE
    /\ srEdits' = srEdits + 1
    /\ UNCHANGED <<app, notStock, locations, srIssues, srSubmitted>>

\* Unit Price onChange
SrChangePrice ==
    /\ app = "stock"
    /\ srEdits < MaxChanges
    /\ \E val \in PriceTexts :
        /\ sr.unitPrice # parseNumber(val)
        /\ sr' = [sr EXCEPT !.unitPrice = parseNumber(val)]
    /\ srPending' = TRUE
    /\ srEdits' = srEdits + 1
    /\ UNCHANGED <<app, notStock, locations, srIssues, srSubmitted>>

\* Location onValueChange; the Select is disabled without locations
SrSelectLocation ==
    /\ app = "stock"
    /\ srEdits < MaxChanges
    /\ \E l \in locations :
        /\ sr.location # l
        /\ sr' = [sr EXCEPT !.location = l]
    /\ srEdits' = srEdits + 1
    /\ UNCHANGED <<app, notStock, locations, srIssues, srSubmitted, srPending>>

\* useEffect on [qty, price]: form.setValue("totalCost", calcTotalCost(qty, price)).
\* The effect runs after the render that follows a change; nothing in the
\* component makes a submit wait for it.
SrEffect ==
    /\ app = "stock"
    /\ srPending
    /\ sr' = [sr EXCEPT !.totalCost = calcTotalCost(sr.quantityReceived, sr.unitPrice)]
    /\ srPending' = FALSE
    /\ UNCHANGED <<app, notStock, locations, srIssues, srSubmitted, srEdits>>

\* a submit handler that hands on the staged total
handleSubmitAsStaged(v) == v

\* handleSubmit(values): the payload handed to onSubmit, or logged without one
handleSubmit(v) ==
    [v EXCEPT !.totalCost = calcTotalCost(v.quantityReceived, v.unitPrice)]

\* Save Receipt (disabled without locations): form.handleSubmit runs the
\* resolver and, when the record is accepted, handleSubmit
SrSubmit ==
    /\ app = "stock"
    /\ locations # {}
    /\ srIssues' = stockReceiveSchema(sr)
    /\ srSubmitted' = IF stockReceiveSchema(sr) = {} THEN Some(handleSubmit(sr))
                      ELSE srSubmitted
    /\ UNCHANGED <<app, notStock, locations, sr, srPending, srEdits>>

\* Reset: form.reset(); the watched values change if they were not the defaults
SrReset ==
    /\ app = "stock"
    /\ sr # defaultStock \/ srIssues # {}
    /\ sr' = defaultStock
    /\ srIssues' = {}
    /\ srPending' = (srPending \/ sr.quantityReceived # defaultStock.quantityReceived
                               \/ sr.unitPrice # defaultStock.unitPrice)
    /\ UNCHANGED <<app, notStock, locations, srSubmitted, srEdits>>

\* the form after its first render: the effect is scheduled
InitStock ==
    /\ locations \in LocationProps
    /\ sr = defaultStock
    /\ srIssues = {}
    /\ srSubmitted = Absent
    /\ srPending = TRUE
    /\ srEdits = 0

NextStock ==
    \/ SrChangeQuantity
    \/ SrChangePrice
    \/ SrSelectLocation
    \/ SrEffect
    \/ SrSubmit
    \/ SrReset

\* the numbers calcTotalCost is called with
\* Number.MAX_VALUE, (2^53 - 1) * 2^971
MAX_VALUE == Binary(FALSE, <<32767, 32767, 32767, 255>>, 971)

CalcNumbers ==
    {Milli(n) : n \in {0, 1000, 2000, 3000, 10000, 5500, -1000,
                       5000, 2345, 1005, 125, 1500, 100, 4350}}
    \cup {NaN, Infinity, NegInfinity, MAX_VALUE}

\* calcTotalCost(qty, unitPrice), as the inline tests call it
CalcTotalCost ==
    /\ app = "calc"
    /\ Len(calcResults) < MaxRuns
    /\ calcResults' = Append(calcResults, calcTotalCost(calcArgs[1], calcArgs[2]))
    /\ UNCHANGED <<app, notCalc, calcArgs>>

InitCalc ==
    /\ calcArgs \in CalcNumbers \X CalcNumbers
    /\ calcResults = <<>>

----------------------------------------------------------------------------
\* Stock withdrawal form (src/Stock_Withdrawal.tsx)

\* quantity: z.coerce.number({...}).int(message).positive(message); the
\* value is a number, or the text of a number input
coercedPositiveInt(x) ==
    LET n == IF x = NaN THEN NaN ELSE NumberOfText(x)
    IN  IF n = NaN THEN {Issue(<<>>, "Enter a valid quantity.", TRUE)}
        ELSE (IF IsInteger(n) THEN {}
              ELSE {Issue(<<>>, "Quantity must be a whole number.", FALSE)})
             \cup (IF Positive(n) THEN {}
                   ELSE {Issue(<<>>, "Quantity must be greater than 0.", FALSE)})

\* FormSchema.safeParse(v).error.issues
withdrawalSchema(v) ==
    At(<<"stockItemId">>, stringMin1(v.stockItemId, "Please select a stock item."))
    \cup At(<<"quantity">>, coercedPositiveInt(v.quantity))
    \cup At(<<"requestedBy">>, stringMin1(v.requestedBy, "Who requested this withdrawal?"))
    \cup At(<<"jobNumber">>, stringMin1(v.jobNumber, "Job number is required."))

\* the values the resolver hands to handleSubmit: quantity coerced
withdrawalData(v) == [v EXCEPT !.quantity = NumberOfText(v.quantity)]

\* the defaultValues prop: none, or the values of the fourth test case
DefaultValueProps ==
    {[stockItemId |-> "", quantity |-> Milli(1000), requestedBy |-> "", jobNumber |-> ""],
     [stockItemId |-> "a", quantity |-> Milli(2000), requestedBy |-> "Alex",
      jobNumber |-> "JOB-99"]}

\* the items prop: not passed, empty, or the items of the third test case
ItemProps == {Absent, Some({}), Some({"a", "b"})}

\* items = [] when the prop is undefined
itemsOrDefault(prop) == IF prop = Absent THEN {} ELSE prop[1]

\* const noItems = items.length === 0
noItems == itemsOrDefault(swItems) = {}

\* a submit button that does not look at the items
submitDisabledIgnoringItems == swDisabled \/ ~swIsValid

\* the submit button: disabled={disabled || !form.formState.isValid || noItems}
submitDisabled == swDisabled \/ ~swIsValid \/ noItems

\* a field's onChange (mode: "onChange"): the resolver runs and
\* formState.isValid follows
SwChange(f, x) ==
    /\ app = "withdrawal"
    /\ ~swDisabled
    /\ swEdits < MaxChanges
    /\ sw[f] # x
    /\ sw' = [sw EXCEPT ![f] = x]
    /\ swIsValid' = (withdrawalSchema(sw') = {})
    /\ swEdits' = swEdits + 1
    /\ UNCHANGED <<app, notWithdrawal, swItems, swDisabled, swDefaults, swIssues, swSubmitted>>

\* Stock Item onValueChange; the Select is disabled={disabled || noItems}
SwSelectItem == ~noItems /\ \E id \in itemsOrDefault(swItems) : SwChange("stockItemId", id)

\* Quantity removed onChange: field.onChange(e.target.value)
SwChangeQuantity ==
    \E val \in {EmptyText, Milli(5000), Milli(1500), Milli(0)} : SwChange("quantity", val)

SwChangeRequestedBy == \E val \in {"", "Alex"} : SwChange("requestedBy", val)

SwChangeJobNumber == \E val \in {"", "JOB-99"} : SwChange("jobNumber", val)

\* Record Withdrawal, or Enter in a field (which clicks the submit button
\* unless it is disabled): form.handleSubmit runs the resolver and, when the
\* values are accepted, handleSubmit
SwSubmit ==
    /\ app = "withdrawal"
    /\ ~submitDisabled
    /\ swIssues' = withdrawalSchema(sw)
    /\ swSubmitted' = IF withdrawalSchema(sw) = {} THEN Some(withdrawalData(sw))
                      ELSE swSubmitted
    /\ UNCHANGED <<app, notWithdrawal, swItems, swDisabled, swDefaults, sw, swIsValid, swEdits>>

\* Reset: form.reset() puts back the default values
SwReset ==
    /\ app = "withdrawal"
    /\ ~swDisabled
    /\ sw # swDefaults \/ swIssues # {}
    /\ sw' = swDefaults
    /\ swIsValid' = (withdrawalSchema(swDefaults) = {})
    /\ swIssues' = {}
    /\ UNCHANGED <<app, notWithdrawal, swItems, swDisabled, swDefaults, swSubmitted, swEdits>>

\* the page passes the items once they are loaded ("may be undefined during
\* initial data load")
SwItemsLoaded ==
    /\ app = "withdrawal"
    /\ swItems = Absent
    /\ swItems' \in ItemProps \ {Absent}
    /\ UNCHANGED <<app, notWithdrawal, swDisabled, swDefaults, sw, swIsValid, swIssues,
                   swSubmitted, swEdits>>

\* the page sets or lifts disabled ("e.g. when saving")
SwSetDisabled ==
    /\ app = "withdrawal"
    /\ swDisabled' = ~swDisabled
    /\ UNCHANGED <<app, notWithdrawal, swItems, swDefaults, sw, swIsValid, swIssues,
                   swSubmitted, swEdits>>

\* the form after its first validation
InitWithdrawal ==
    /\ swItems \in ItemProps
    /\ swDisabled \in BOOLEAN
    /\ swDefaults \in DefaultValueProps
    /\ sw = swDefaults
    /\ swIsValid = (withdrawalSchema(swDefaults) = {})
    /\ swIssues = {}
    /\ swSubmitted = Absent
    /\ swEdits = 0

NextWithdrawal ==
    \/ SwSelectItem
    \/ SwChangeQuantity
    \/ SwChangeRequestedBy
    \/ SwChangeJobNumber
    \/ SwSubmit
    \/ SwReset
    \/ SwItemsLoaded
    \/ SwSetDisabled

----------------------------------------------------------------------------
\* Two-step customer wizard (src/Customer_V2.tsx)

steps == <<"Customer Details", "Deceased Details">>

\* the value of a date input: "" (written <<>>) or a date <<year, month, day>>
NoDate == <<>>

\* new Date(s).getTime() of a date input's value, in days: the dates keep
\* their order (a month is counted as 31 days, a year as 372)
DateOf(s) == s[1] * 372 + s[2] * 31 + s[3]

\* a guard that lets every record through
deathBeforeBirthNever(data) == FALSE

\* data.birthDate && data.deathDate && new Date(data.deathDate) < new Date(data.birthDate)
deathBeforeBirth(data) ==
    /\ data.birthDate # NoDate
    /\ data.deathDate # NoDate
    /\ DateOf(data.deathDate) < DateOf(data.birthDate)

defaultCustomer ==
    [customerName |-> "", phone |-> "", email |-> "", deceasedName |-> "",
     birthDate |-> NoDate, deathDate |-> NoDate, gender |-> ""]

fieldsPerStep ==
    <<{"customerName", "phone", "email"},
      {"deceasedName", "birthDate", "deathDate", "gender"}>>

\* what the user enters into a field
CustomerInputs(f) ==
    CASE f = "customerName" -> {"", "T. Moyo"}
      [] f = "birthDate" -> {NoDate, <<1950, 3, 1>>, <<2020, 1, 15>>}
      [] f = "deathDate" -> {NoDate, <<2019, 12, 31>>, <<2024, 6, 2>>}
      [] f = "gender" -> {"Female"}
      [] OTHER -> {}

\* register(name, rules): the fields that fail their rules
BuiltInErrors(v, fields) == {f \in fields \cap {"customerName"} : v[f] = ""}

\* an input of the step shown changes its field; the field is validated anew
WzChange ==
    /\ app = "wizard"
    /\ wzEdits < MaxEntries
    /\ \E f \in fieldsPerStep[step + 1] : \E x \in CustomerInputs(f) :
        /\ wz[f] # x
        /\ wz' = [wz EXCEPT ![f] = x]
        /\ wzErrors' = (wzErrors \ {f}) \cup BuiltInErrors(wz', {f})
    /\ wzEdits' = wzEdits + 1
    /\ UNCHANGED <<app, notWizard, step, wzSubmitted>>

\* Next, rendered on every step but the last: nextStep()
nextStep ==
    /\ app = "wizard"
    /\ step < Len(steps) - 1
    /\ LET fields == fieldsPerStep[step + 1]
           failed == BuiltInErrors(wz, fields)
       IN  IF failed # {}
           THEN /\ wzErrors' = (wzErrors \ fields) \cup failed
                /\ step' = step
           ELSE IF step = 1 /\ deathBeforeBirth(wz)
           THEN /\ wzErrors' = (wzErrors \ fields) \cup {"deathDate"}
                /\ step' = step
           ELSE /\ wzErrors' = wzErrors \ fields
                /\ step' = IF step + 1 < Len(steps) - 1 THEN step + 1 ELSE Len(steps) - 1
    /\ UNCHANGED <<app, notWizard, wz, wzSubmitted, wzEdits>>

\* Back, disabled on the first step: prevStep()
prevStep ==
    /\ app = "wizard"
    /\ step # 0
    /\ step' = IF step - 1 > 0 THEN step - 1 ELSE 0
    /\ UNCHANGED <<app, notWizard, wz, wzErrors, wzSubmitted, wzEdits>>

\* Submit, rendered on the last step: handleSubmit validates the fields
\* and calls onSubmit(data) if none fails
WzSubmit ==
    /\ app = "wizard"
    /\ step = Len(steps) - 1
    /\ LET failed == BuiltInErrors(wz, DOMAIN wz)
       IN  IF failed # {}
           THEN /\ wzErrors' = failed
                /\ UNCHANGED <<step, wzSubmitted>>
           ELSE IF deathBeforeBirth(wz)
           THEN /\ wzErrors' = {"deathDate"}
                /\ step' = 1
                /\ UNCHANGED wzSubmitted
           ELSE /\ wzErrors' = {}
                /\ wzSubmitted' = Some(wz)
                /\ UNCHANGED step
    /\ UNCHANGED <<app, notWizard, wz, wzEdits>>

InitWizard ==
    /\ wz = defaultCustomer
    /\ step = 0
    /\ wzErrors = {}
    /\ wzSubmitted = Absent
    /\ wzEdits = 0

NextWizard ==
    \/ WzChange
    \/ nextStep
    \/ prevStep
    \/ WzSubmit

----------------------------------------------------------------------------
\* Five-step validated customer wizard (src/Stock_Receipt.tsx:1311-1523)

ccSteps ==
    <<"Customer Details", "Deceased Details", "Coffin Selection", "Additional Services",
      "Summary">>

\* a step that is not held below the last one
MinUnbounded(a, b) == a

Min(a, b) == IF a < b THEN a ELSE b

Max(a, b) == IF a > b THEN a ELSE b

\* /^[0-9+ ()-]{7,}$/i
ccPhoneRegex(s) ==
    /\ Len(s) >= 7
    /\ \A n \in 1..Len(s) : s[n] \in DigitChars \cup {"+", " ", "(", ")", "-"}

\* the fields that fail the schema
ccSchema(v) ==
    {f \in {"customerFirstName", "customerLastName"} : v[f] = ""}
    \cup {f \in {"phone"} : Len(v.phone) < 7 \/ ~ccPhoneRegex(v.phone)}
    \cup {f \in {"email"} : ~emailRegex(v.email) /\ v.email # <<>>}
    \cup {f \in {"deceasedFirstName", "deceasedLastName"} : FALSE}
    \cup {f \in {"gender"} : v.gender \notin {Undefined, "Male", "Female", "Other"}}

\* step fields that name no field
stepFieldsNone == <<{}, {}, {}, {}>>

stepFields ==
    <<{"customerFirstName", "customerLastName", "phone", "email"}, {}, {}, {}>>

\* the fields whose inputs a step renders
ccShown ==
    <<{"customerFirstName", "customerLastName", "phone", "email"},
      {"deceasedFirstName", "deceasedLastName", "gender"}, {}, {}, {}>>

\* defaultValues: {}; a text input that is rendered registers its value ""
\* (the texts of phone and email are written as sequences of characters)
ccMounted(v, s) ==
    [f \in DOMAIN v |->
        IF f \in ccShown[s + 1] \ {"gender"} /\ v[f] = Undefined THEN "" ELSE v[f]]

ccDefault ==
    [customerFirstName |-> "", customerLastName |-> "", phone |-> <<>>, email |-> <<>>,
     deceasedFirstName |-> Undefined, deceasedLastName |-> Undefined, gender |-> Undefined]

\* what the user enters into a field
CcInputs(f) ==
    CASE f = "customerFirstName" -> {"", "Tariro"}
      [] f = "customerLastName" -> {"", "Moyo"}
      [] f = "phone" -> {<<>>, <<"7", "7", "1">>, PhoneText,
                         <<"(", "0", "7", "7", ")", " ", "1", "2", "-", "3">>,
                         <<"0", "7", "7", "1", "2", "3", "x">>}
      [] f = "email" -> {<<>>, EmailText, <<"j", "@">>}
      [] f = "deceasedFirstName" -> {"", "Rudo"}
      [] f = "gender" -> {"Female"}
      [] OTHER -> {}

\* an input of the step shown changes its field and is left (mode
\* onTouched): the field is validated
CcChange ==
    /\ app = "coffin"
    /\ wzEdits < MaxEntries
    /\ \E f \in ccShown[step + 1] : \E x \in CcInputs(f) :
        /\ wz[f] # x
        /\ wz' = [wz EXCEPT ![f] = x]
        /\ wzErrors' = (wzErrors \ {f}) \cup (ccSchema(wz') \cap {f})
    /\ wzEdits' = wzEdits + 1
    /\ UNCHANGED <<app, notWizard, step, wzSubmitted>>

\* Next, rendered on every step but the last: nextStep()
ccNextStep ==
    /\ app = "coffin"
    /\ step < Len(ccSteps) - 1
    /\ LET validated == step < Len(ccSteps) - 2 /\ stepFields[step + 1] # {}
           fields == IF validated THEN stepFields[step + 1] ELSE {}
           failed == ccSchema(wz) \cap fields
       IN  IF failed # {}
           THEN /\ wzErrors' = (wzErrors \ fields) \cup failed
                /\ UNCHANGED <<step, wz>>
           ELSE /\ wzErrors' = wzErrors \ fields
                /\ step' = Min(step + 1, Len(ccSteps) - 1)
                /\ wz' = ccMounted(wz, step')
    /\ UNCHANGED <<app, notWizard, wzSubmitted, wzEdits>>

\* Back, disabled on the first step: prevStep()
ccPrevStep ==
    /\ app = "coffin"
    /\ step # 0
    /\ step' = Max(step - 1, 0)
    /\ UNCHANGED <<app, notWizard, wz, wzErrors, wzSubmitted, wzEdits>>

\* Submit, rendered on the last step: handleSubmit runs the resolver and
\* calls onSubmit(data) if no field fails
ccOnSubmit ==
    /\ app = "coffin"
    /\ step = Len(ccSteps) - 1
    /\ LET failed == ccSchema(wz)
       IN  IF failed # {}
           THEN /\ wzErrors' = failed
                /\ UNCHANGED <<step, wzSubmitted>>
           ELSE /\ wzErrors' = {}
                /\ wzSubmitted' = Some(wz)
                /\ step' = Len(ccSteps) - 1
    /\ UNCHANGED <<app, notWizard, wz, wzEdits>>

InitCoffin ==
    /\ wz = ccDefault
    /\ step = 0
    /\ wzErrors = {}
    /\ wzSubmitted = Absent
    /\ wzEdits = 0

NextCoffin ==
    \/ CcChange
    \/ ccNextStep
    \/ ccPrevStep
    \/ ccOnSubmit

----------------------------------------------------------------------------
\* Five-step customer wizard without validation (src/Customer.tsx)

cuSteps ==
    <<"Customer Details", "Deceased Details", "Coffin Selection", "Additional Services",
      "Summary">>

\* the fields whose inputs a step renders
cuShown == <<{"customerName"}, {"deceasedName"}, {"model"}, {"transport"}, {}>>

\* defaultValues names the services only; a text input that is rendered
\* registers its value ""
cuMounted(v, s) ==
    [f \in DOMAIN v |-> IF f \in cuShown[s + 1] /\ v[f] = Undefined THEN "" ELSE v[f]]

cuDefault ==
    [customerName |-> "", deceasedName |-> Undefined, model |-> Undefined,
     transport |-> "false"]

\* what the user enters into a field
CuInputs(f) ==
    CASE f = "customerName" -> {"", "T. Moyo"}
      [] f = "deceasedName" -> {"", "R. Moyo"}
      [] f = "model" -> {"", "Classic"}
      [] f = "transport" -> {"false", "true"}
      [] OTHER -> {}

\* an input of the step shown changes its field
CuChange ==
    /\ app = "customer"
    /\ wzEdits < MaxEntries
    /\ \E f \in cuShown[step + 1] : \E x \in CuInputs(f) :
        /\ wz[f] # x
        /\ wz' = [wz EXCEPT ![f] = x]
    /\ wzEdits' = wzEdits + 1
    /\ UNCHANGED <<app, notWizard, step, wzErrors, wzSubmitted>>

\* Next, rendered on every step but the last: nextStep()
cuNextStep ==
    /\ app = "customer"
    /\ step < Len(cuSteps) - 1
    /\ step' = Min(step + 1, Len(cuSteps) - 1)
    /\ wz' = cuMounted(wz, step')
    /\ UNCHANGED <<app, notWizard, wzErrors, wzSubmitted, wzEdits>>

\* Back, disabled on the first step: prevStep()
cuPrevStep ==
    /\ app = "customer"
    /\ step # 0
    /\ step' = Max(step - 1, 0)
    /\ UNCHANGED <<app, notWizard, wz, wzErrors, wzSubmitted, wzEdits>>

\* Submit, rendered on the last step: handleSubmit has no rule to check and
\* calls onSubmit(data)
cuOnSubmit ==
    /\ app = "customer"
    /\ step = Len(cuSteps) - 1
    /\ wzSubmitted # Some(wz)
    /\ wzSubmitted' = Some(wz)
    /\ UNCHANGED <<app, notWizard, wz, step, wzErrors, wzEdits>>

InitPlain ==
    /\ wz = cuDefault
    /\ step = 0
    /\ wzErrors = {}
    /\ wzSubmitted = Absent
    /\ wzEdits = 0

NextPlain ==
    \/ CuChange
    \/ cuNextStep
    \/ cuPrevStep
    \/ cuOnSubmit

----------------------------------------------------------------------------
\* Employment details schema (src/Stock_Receipt.tsx:348-873)

EMPLOYMENT_TYPES == {"Full-time", "Part-time", "Contract", "Intern"}
WORK_LOCATIONS == {"Mutapa Store", "Mutapa Workshop", "Shurugwi Road Workshop", "Other"}
STATUS_TYPES == {"Active", "On Leave", "Resigned", "Retired", "Other"}
OCCUPATIONS ==
    {"Receptionist", "Carpenter", "Machinist", "Surface Finisher", "Painter",
     "Upholsterer", "Sewing Machine Operator", "Liner Installer",
     "Production Supervisor", "Assembly Line Worker", "Quality Control Inspector",
     "Maintenance Technician", "Health & Safety Officer", "Warehouse Manager",
     "Packaging Specialist", "Delivery Driver", "Sales Consultant",
     "Marketing Coordinator", "General Manager", "Procurement Officer",
     "Administrative Assistant", "CAD Technician", "Graphic Designer", "Other"}

\* a record without the secondaryRoles key
RolesUndefined == <<"undefined">>

\* employeeId: z.string({ required_error }).trim().min(1, ...).max(32, ...)
employeeIdSchema(x) ==
    IF x = TextUndefined THEN {Issue(<<>>, "Employee ID is required", TRUE)}
    ELSE (IF Len(trim(x)) < 1 THEN {Issue(<<>>, "Employee ID is required", FALSE)} ELSE {})
         \cup (IF Len(trim(x)) > 32 THEN {Issue(<<>>, "Employee ID is too long", FALSE)}
               ELSE {})

\* .default([])
rolesOrDefault(x) == IF x = RolesUndefined THEN <<>> ELSE x

\* secondaryRoles: z.array(z.enum(OCCUPATIONS)).default([])
secondaryRolesSchema(x) ==
    UNION {At(<<IndexName[k]>>, zEnum(OCCUPATIONS, rolesOrDefault(x)[k], "Required")) :
              k \in 1..Len(rolesOrDefault(x))}

\* a loop over the roles that never finds a role seen before
seenBeforeNever(rs) == FALSE

\* the loop of superRefine: some role is in the set of the roles before it
seenBefore(rs) ==
    \E k \in 1..Len(rs) : rs[k] \in {rs[j] : j \in 1..(k - 1)}

\* EmploymentDetailsSchema.safeParse(v).error.issues
EmploymentDetailsSchema(v) ==
    LET obj == At(<<"employeeId">>, employeeIdSchema(v.employeeId))
               \cup At(<<"primaryRole">>,
                       zEnum(OCCUPATIONS, v.primaryRole, "Primary role is required"))
               \cup At(<<"secondaryRoles">>, secondaryRolesSchema(v.secondaryRoles))
               \cup At(<<"dateOfJoiningDate">>,
                       zDate(v.dateOfJoiningDate, "Date of joining is required"))
               \cup At(<<"employmentType">>,
                       zEnum(EMPLOYMENT_TYPES, v.employmentType, "Employment Type is required"))
               \cup At(<<"workLocation">>,
                       zEnum(WORK_LOCATIONS, v.workLocation, "Work Location is required"))
               \cup At(<<"status">>, zEnum(STATUS_TYPES, v.status, "Status is required"))
        r1 == refine(obj, ~seenBefore(rolesOrDefault(v.secondaryRoles)),
                     <<"secondaryRoles">>, "Duplicate secondary roles are not allowed")
    IN  refine(r1, v.dateOfJoiningDate \notin {DateUndefined, InvalidDate},
               <<"dateOfJoiningDate">>, "Invalid date")

\* the record base of testEmploymentDetailsSchema with a primary role
baseEmployment ==
    [employeeId |-> <<"E", "M", "P", "-", "0", "0", "1">>, primaryRole |-> "Painter",
     secondaryRoles |-> <<>>, dateOfJoiningDate |-> <<-300>>,
     employmentType |-> "Full-time", workLocation |-> "Mutapa Store", status |-> "Active"]

----------------------------------------------------------------------------
----------------------------------------------------------------------------
\* The schemas applied to records that no control produced, as the self-tests
\* apply them (schema.safeParse(record as any))

\* texts a caller may hand over for an option field
Texts(options) == {"", "Other", "Purple"} \cup {CHOOSE o \in options : o # "Other"}

Companions == {TextUndefined, <<" ">>, <<"x">>}

\* flatCaskets[0] of an otherwise valid order
FlatItemProbes ==
    {[material |-> m, tier |-> "Flat", size |-> z, sizeOther |-> zo, color |-> c,
      colorOther |-> co, quantity |-> q] :
        m \in {"", "Superwood", "Purple"}, z \in Texts(FLAT_SIZES), zo \in Companions,
        c \in Texts(COLORS), co \in {TextUndefined, <<"x">>},
        q \in {Num(1, 0), Num(0, 0), NaN}}

\* the job card of an otherwise valid order
JobProbes ==
    {[validOrder.job EXCEPT !.expectedDurationValue = d, !.expectedDurationUnit = u,
                            !.assignedTo = a, !.assignedToOther = ao, !.requestedBy = r] :
        d \in {Num(3, 0), NaN}, u \in {"", "Hours", "Purple"}, a \in Texts(ASSIGNED_TO),
        ao \in Companions, r \in Texts(REQUESTED_BY)}

CasketProbes ==
    {[filledCasket EXCEPT !.type = t, !.typeOther = to, !.material = m, !.colour = c,
                          !.exteriorFinish = e, !.interiorFinish = n] :
        t \in Texts(TYPE_OPTIONS), to \in {<<>>, <<"x">>}, m \in Texts(MATERIAL_OPTIONS),
        c \in Texts(COLOUR_OPTIONS), e \in {"", "Gloss Painted", "Purple"},
        n \in Texts(INTERIOR_FINISH_OPTIONS)}

DowntimeProbes ==
    {[filledDowntime EXCEPT !.department = d, !.departmentOther = do, !.reason = r,
                            !.reasonOther = ro, !.startTime = t] :
        d \in {Undefined, "Cutting", "Other"}, do \in {<<>>, <<" ">>, <<"x">>},
        r \in {Undefined, "Maintenance", "Other"}, ro \in {<<>>, <<"x">>},
        t \in {"", "09:00"}}

\* quantities a caller may hand over
Quantities == {Num(1, 0), Num(2, 0), Num(0, 0), Num(1, 5), NaN, NumUndefined}

\* an otherwise valid order with the quantity of one line item replaced
QuantityProbes ==
    {[of |-> "order", rec |-> [validOrder EXCEPT ![l][1].quantity = q]] :
        l \in PoLists, q \in Quantities}
    \cup {[of |-> "single", rec |-> [validSingle EXCEPT ![l][1].quantity = q]] :
             l \in SoLists, q \in Quantities}

\* single-type records: each list holds its default entry or a filled one,
\* under every coffin type
SingleTypeProbes ==
    {[coffinType |-> t,
      flatCaskets |-> IF "flatCaskets" \in filled THEN validSingle.flatCaskets
                      ELSE defaultSingle.flatCaskets,
      fishCoffins |-> IF "fishCoffins" \in filled THEN validSingle.fishCoffins
                      ELSE defaultSingle.fishCoffins,
      domeCaskets |-> IF "domeCaskets" \in filled THEN validSingle.domeCaskets
                      ELSE defaultSingle.domeCaskets] :
        t \in COFFIN_TYPES \cup {""}, filled \in SUBSET SoLists}

\* an order with a fault in the job card and a fault in a line item
CrossProbes ==
    {[validOrder EXCEPT !.job.assignedTo = a, !.flatCaskets[1].size = z,
                        !.flatCaskets[1].quantity = q] :
        a \in {"", "Workshop Team"}, z \in {"Adult", "Other", ""},
        q \in {Num(1, 0), Num(0, 0), Num(1, 5)}}

\* the records of the inline tests of the stock receipt form, field by field
StockProbes ==
    {[quantityReceived |-> q, unitPrice |-> p, totalCost |-> t, location |-> l] :
        q \in {Milli(2000), Milli(3000), Milli(0), Milli(5500), Milli(-3000),
               NaN, NumUndefined, Infinity},
        p \in {Milli(1500), Milli(0), Milli(-1000), NaN, Infinity},
        t \in {Milli(3000), Milli(0), Milli(-3000), NumUndefined},
        l \in {"MAIN_WH", "", Undefined}}

\* arrays a caller may hand over as secondaryRoles
RoleLists ==
    LET R == {"Painter", "Carpenter", "NotAJob"}
    IN  {RolesUndefined} \cup UNION {[1..n -> R] : n \in 0..3}

\* the records of testEmploymentDetailsSchema, with every array of roles
EmploymentProbes ==
    {[b EXCEPT !.primaryRole = r, !.secondaryRoles = rs] :
        b \in {baseEmployment,
               [baseEmployment EXCEPT !.employeeId = <<>>],
               [baseEmployment EXCEPT !.employeeId = <<" ", "7", " ">>],
               [baseEmployment EXCEPT !.employeeId = [i \in 1..33 |-> "9"]],
               [baseEmployment EXCEPT !.dateOfJoiningDate = InvalidDate],
               [baseEmployment EXCEPT !.employmentType = "Temp"]},
        r \in {"Painter", "Carpenter", "NotAJob"},
        rs \in RoleLists}

\* "x".repeat(n)
RECURSIVE repeat(_, _)
repeat(c, n) == IF n = 0 THEN "" ELSE c \o repeat(c, n - 1)

\* the records of the FormSchema tests, field by field
UserProbes ==
    LET Names == {"", "A", "Jane", "Doe", repeat("x", 100), repeat("x", 101), Undefined}
    IN  {[firstName |-> f, lastName |-> l, role |-> r] :
            f \in Names, l \in Names, r \in roles \cup {"CEO", "", Undefined}}

Inputs ==
    {[of |-> "order", rec |-> [validOrder EXCEPT !.flatCaskets[1] = x]] : x \in FlatItemProbes}
    \cup {[of |-> "order", rec |-> [validOrder EXCEPT !.job = x]] : x \in JobProbes}
    \cup {[of |-> "single", rec |-> [validSingle EXCEPT !.flatCaskets[1] = x]] :
             x \in {y \in FlatItemProbes : y.quantity # NaN}}
    \cup {[of |-> "casket", rec |-> x] : x \in CasketProbes}
    \cup {[of |-> "downtime", rec |-> x] : x \in DowntimeProbes}
    \cup QuantityProbes
    \cup {[of |-> "order", rec |-> x] : x \in CrossProbes}
    \cup {[of |-> "stock", rec |-> x] : x \in StockProbes}
    \cup {[of |-> "employment", rec |-> x] : x \in EmploymentProbes}
    \cup {[of |-> "user", rec |-> x] : x \in UserProbes}
    \cup {[of |-> "single", rec |-> x] : x \in SingleTypeProbes}

\* the issues of the schema a record is handed to
safeParse(of, rec) ==
    CASE of = "order" -> schema(rec)
      [] of = "single" -> schema1(rec)
      [] of = "casket" -> casketSchema(rec)
      [] of = "downtime" -> DowntimeSchema(rec)
      [] of = "stock" -> stockReceiveSchema(rec)
      [] of = "employment" -> EmploymentDetailsSchema(rec)
      [] of = "user" -> {Issue(<<f>>, "Invalid", FALSE) : f \in FormSchemaErrors(rec)}

\* a call that remembers the issues of the call before it
SafeParseRemembering ==
    /\ app = "schema"
    /\ parses < MaxRuns
    /\ output' = IF output = Absent THEN Some(safeParse(input.of, input.rec))
                 ELSE Some(output[1] \cup {Issue(<<>>, "Invalid input", TRUE)})
    /\ parses' = parses + 1
    /\ UNCHANGED <<app, notSchema, input>>

\* schema.safeParse(record); the caller may call it again on the same record
SafeParse ==
    /\ app = "schema"
    /\ parses < MaxRuns
    /\ output' = Some(safeParse(input.of, input.rec))
    /\ parses' = parses + 1
    /\ UNCHANGED <<app, notSchema, input>>

InitSchema ==
    /\ input \in Inputs
    /\ output = Absent
    /\ parses = 0

IdleSchema == input = [of |-> "none", rec |-> <<>>] /\ output = Absent /\ parses = 0

\* the forms are separate pages: one of them is mounted, the others keep
\* the state of a form that was never opened
Apps == {"user", "order", "single", "casket", "downtime", "employee", "schema",
         "stock", "wizard", "calc", "withdrawal", "coffin", "customer"}

IdleUser ==
    /\ values = DefaultValues /\ formErrors = {} /\ loadingDraft = FALSE
    /\ isSubmitting = FALSE /\ lastError = Null /\ calls = <<>>
    /\ toasts = {} /\ idRef = 0 /\ ls = Absent /\ idb = Absent
    /\ idbQueue = <<>> /\ timer = NoTimer /\ waited = 0 /\ navigated = FALSE
    /\ lastFailed = 0 /\ edits = 0

IdleOrder == po = defaultOrder /\ poIssues = {} /\ poLogged = Absent /\ poEdits = 0

IdleSingle == so = defaultSingle /\ soIssues = {} /\ soLogged = Absent /\ soEdits = 0

IdleCasket ==
    /\ ck = defaultCasket /\ ckIssues = {} /\ ckSaved = Absent
    /\ ckSubmitting = FALSE /\ successOpen = FALSE /\ ckEdits = 0

IdleDowntime == InitDowntime /\ dt = defaultDowntime

IdleEmployee == InitEmployee /\ em = defaultEmployee

IdleStock == InitStock /\ locations = {}

IdleWithdrawal ==
    /\ InitWithdrawal
    /\ swItems = Absent /\ ~swDisabled /\ swDefaults.stockItemId = ""

IdleCalc == calcArgs = <<Milli(0), Milli(0)>> /\ calcResults = <<>>

Init ==
    /\ app \in Apps
    /\ IF app = "user" THEN InitUser ELSE IdleUser
    /\ IF app = "order" THEN InitOrder ELSE IdleOrder
    /\ IF app = "single" THEN InitSingle ELSE IdleSingle
    /\ IF app = "casket" THEN InitCasket ELSE IdleCasket
    /\ IF app = "downtime" THEN InitDowntime ELSE IdleDowntime
    /\ IF app = "employee" THEN InitEmployee ELSE IdleEmployee
    /\ IF app = "schema" THEN InitSchema ELSE IdleSchema
    /\ IF app = "stock" THEN InitStock ELSE IdleStock
    /\ CASE app = "coffin" -> InitCoffin
         [] app = "customer" -> InitPlain
         [] OTHER -> InitWizard
    /\ IF app = "withdrawal" THEN InitWithdrawal ELSE IdleWithdrawal
    /\ IF app = "calc" THEN InitCalc ELSE IdleCalc

\* the user registration form
Next == NextUser

InitRegistration == Init /\ app = "user"

Spec == InitRegistration /\ [][Next]_vars

\* the forms that hand a record to a gateway
NextGateway ==
    \/ NextUser
    \/ NextDowntime
    \/ NextEmployee

InitGateway == Init /\ app \in {"user", "downtime", "employee"}

SpecGateway == InitGateway /\ [][NextGateway]_vars

\* the forms with option fields
NextForms ==
    \/ NextOrder
    \/ NextSingle
    \/ NextCasket
    \/ NextDowntime
    \/ SafeParse

InitForms == Init /\ app \in {"order", "single", "casket", "downtime", "schema"}

SpecForms == InitForms /\ [][NextForms]_vars

\* the stock receipt form and its cost calculation
NextReceipt ==
    \/ NextStock
    \/ CalcTotalCost

InitReceipt == Init /\ app \in {"stock", "calc"}

SpecReceipt == InitReceipt /\ [][NextReceipt]_vars

\* the registration form over draft stores that may throw
NextDrafts ==
    \/ NextUser
    \/ NextFaults

InitDrafts == Init /\ app = "user"

SpecDrafts == InitDrafts /\ [][NextDrafts]_vars

\* the registration form and the downtime form with a gateway that settles
\* every call (submitToServer and saveDowntime end after a timeout) and
\* stores that complete every request
NextSettling ==
    \/ NextUser
    \/ NextDowntime

InitSettling == Init /\ app \in {"user", "downtime"}

SpecSettling ==
    /\ InitSettling /\ [][NextSettling]_vars
    /\ WF_vars(SubmitResolve \/ SubmitReject)
    /\ WF_vars(MountLoadDone) /\ WF_vars(PersistDraftDone) /\ WF_vars(SubmitClearDone)
    /\ WF_vars(DtSaveOk \/ DtSaveFail)

\* the stock withdrawal form
InitStockWithdrawal == Init /\ app = "withdrawal"

SpecWithdrawal == InitStockWithdrawal /\ [][NextWithdrawal]_vars

\* the customer wizard
InitCustomer == Init /\ app = "wizard"

SpecWizard == InitCustomer /\ [][NextWizard]_vars

\* the three customer wizards
NextWizards ==
    \/ NextWizard
    \/ NextCoffin
    \/ NextPlain

InitWizards == Init /\ app \in {"wizard", "coffin", "customer"}

SpecWizards == InitWizards /\ [][NextWizards]_vars

----------------------------------------------------------------------------
\* Submission of the registration form

\* the calls to submitToServer that have not settled
Outstanding == {i \in 1..Len(calls) : calls[i].st = "inflight"}

\* the calls to submitToServer that resolved
Resolved(cs) == {i \in 1..Len(cs) : cs[i].st \in {"clearing", "done"}}

\* C1: every record handed to submitToServer satisfies FormSchema, whichever
\* control started the call (Submit, the toast's Retry, the inline Retry).
C1_GatewayGetsValidRecords ==
    \A i \in 1..Len(calls) : FormSchemaOk(calls[i].rec)

\* C2: at most one call to submitToServer is outstanding at any time, and
\* isSubmitting is true for as long as a call is outstanding.
C2_SingleSubmissionInFlight ==
    /\ Cardinality(Outstanding) <= 1
    /\ Outstanding # {} => isSubmitting

\* C3: once a submission has succeeded (submitToServer resolved and
\* clearDrafts finished), neither localStorage nor IndexedDB holds a draft.
C3_DraftAbsentAfterSuccess ==
    (\E i \in 1..Len(calls) : calls[i].st = "done") => ls = Absent /\ idb = Absent

\* C4: the record a Retry hands to submitToServer equals the record of the
\* failed attempt it retries, whatever was edited in between.
C4_RetryResubmitsUnchanged ==
    \A i \in 1..Len(calls) :
        calls[i].via # "submit" => calls[i].rec = calls[calls[i].of].rec

\* C6: after one call to submitToServer has resolved, no further call is
\* made and no other call resolves.
C6_SucceededIsTerminal ==
    [][Resolved(calls) # {} =>
          /\ Len(calls') = Len(calls)
          /\ Resolved(calls') = Resolved(calls)]_vars

----------------------------------------------------------------------------
\* Failure of the gateway

\* C5: the step in which a gateway call fails leaves the draft stores and the
\* form's record as they were and shows an error the user can act on; the
\* registration form sets lastError and adds a toast with a Retry action.
C5_FailureKeepsDraftAndRecord ==
    [][/\ (\E i \in 1..Len(calls) : calls[i].st = "inflight" /\ calls'[i].st = "failed")
            => /\ ls' = ls /\ idb' = idb /\ idbQueue' = idbQueue
               /\ values' = values
               /\ lastError' # Null
               /\ \E t \in toasts' \ toasts : t.action
       /\ (dtCall # Absent /\ dtCall' = Absent /\ dtRecords' = dtRecords)
            => /\ dt' = dt
               /\ dtAlert' = "Failed to save"
               /\ ~submitting'
       /\ (\E i \in 1..Len(emCalls) :
               /\ emCalls[i].st = "posting" /\ emCalls' = Settled(i)
               /\ emAlert' # "Saved successfully")
            => /\ em' = em
               /\ emAlert' \in {"Failed to save", "Failed to fetch"}]_vars

\* a gateway call of the registration form has failed while both stores
\* hold a draft: the draft is still there and Retry is offered
C5_FailureReached ==
    /\ app = "user"
    /\ \E i \in 1..Len(calls) : calls[i].st = "failed"
    /\ lastError # Null
    /\ \E t \in toasts : t.action
    /\ ls # Absent /\ idb # Absent

----------------------------------------------------------------------------
\* Validation of option fields

\* the issues reported at a path
IssuesAt(issues, path) == {i \in issues : i.path = path}

\* the arrays of line items of a production order record
ItemLists(v) == DOMAIN v \ {"job", "coffinType"}

\* the paths of the required option fields of a production order that hold ""
EmptySelects(v) ==
    (IF "job" \in DOMAIN v
     THEN {<<"job", f>> : f \in {g \in {"expectedDurationUnit", "assignedTo", "requestedBy"} :
                                    v.job[g] = ""}}
     ELSE {})
    \cup UNION {UNION {{<<l, IndexName[k], f>> :
                          f \in {g \in {"material", "tier", "size", "color"}
                                        \cap DOMAIN v[l][k] : v[l][k][g] = ""}} :
                       k \in 1..Len(v[l])} : l \in ItemLists(v)}

\* the paths of the companions that are blank while their field is "Other"
BlankCompanions(v) ==
    (IF "job" \in DOMAIN v
     THEN {<<"job", f \o "Other">> : f \in {g \in {"assignedTo", "requestedBy"} :
                v.job[g] = "Other" /\ ~TrimTruthy(v.job[g \o "Other"])}}
     ELSE {})
    \cup UNION {UNION {{<<l, IndexName[k], f \o "Other">> :
                          f \in {g \in {"size", "color"} :
                                    v[l][k][g] = "Other" /\ ~TrimTruthy(v[l][k][g \o "Other"])}} :
                       k \in 1..Len(v[l])} : l \in ItemLists(v)}

\* the same for the department and the reason of a downtime report
BlankDowntimeCompanions(v) ==
    {<<f \o "Other">> : f \in {g \in {"department", "reason"} :
                                  v[g] = "Other" /\ ~TrimTruthy(v[g \o "Other"])}}

\* every path of a set carries an issue
AllReported(paths, issues) == \A path \in paths : IssuesAt(issues, path) # {}

\* C7: when a production order is validated, every required option field
\* that holds "" gets an error at its own path, whatever the other fields
\* hold.
C7_EmptySelectReportedAtItsPath ==
    [][/\ PoSubmit => AllReported(EmptySelects(po), poIssues')
       /\ SoSubmit => AllReported(EmptySelects(so), soIssues')
       /\ (SafeParse /\ input.of \in {"order", "single"})
            => AllReported(EmptySelects(input.rec), output'[1])]_vars

\* C8: when a record is validated, every blank companion of a field that
\* holds "Other" gets an error at the companion's path, whatever the other
\* fields hold.
C8_BlankCompanionReportedAtItsPath ==
    [][/\ PoSubmit => AllReported(BlankCompanions(po), poIssues')
       /\ SoSubmit => AllReported(BlankCompanions(so), soIssues')
       /\ DtSubmit => AllReported(BlankDowntimeCompanions(dt), dtIssues')
       /\ (SafeParse /\ input.of \in {"order", "single"})
            => AllReported(BlankCompanions(input.rec), output'[1])
       /\ (SafeParse /\ input.of = "downtime")
            => AllReported(BlankDowntimeCompanions(input.rec), output'[1])]_vars

\* the fields of a casket record that hold "Other" with a blank companion
BlankCasketCompanions(v) ==
    {f \in {"type", "material", "colour", "interiorFinish"} :
        v[f] = "Other" /\ trim(v[f \o "Other"]) = <<>>}

\* C9: a casket record in which type, material, colour or interiorFinish is
\* "Other" with a blank companion is never handed to onSubmit.
C9_CasketOtherNeedsCompanion ==
    ckSaved # Absent => BlankCasketCompanions(ckSaved[1]) = {}

\* the option set of each option field of a production order item
ItemOptions(l, f) ==
    CASE f = "material" -> FLAT_MATERIALS
      [] f = "tier" -> FLAT_TIERS
      [] f = "color" -> COLORS
      [] f = "size" -> IF l = "domeCaskets" THEN DOME_SIZES
                       ELSE IF l = "coffinFishes" THEN SIZES_COMMON ELSE FLAT_SIZES

\* every option field of a production order record holds one of its options
OrderOptionsChosen(v) ==
    /\ "job" \in DOMAIN v =>
          /\ v.job.expectedDurationUnit \in DURATION_UNITS
          /\ v.job.assignedTo \in ASSIGNED_TO
          /\ v.job.requestedBy \in REQUESTED_BY
    /\ \A l \in ItemLists(v) : \A k \in 1..Len(v[l]) :
          \A f \in {"material", "tier", "size", "color"} \cap DOMAIN v[l][k] :
              v[l][k][f] \in ItemOptions(l, f)

\* every option field of a casket record holds one of its options
CasketOptionsChosen(v) ==
    /\ v.type \in TYPE_OPTIONS
    /\ v.material \in MATERIAL_OPTIONS
    /\ v.exteriorFinish \in EXTERIOR_FINISH_OPTIONS
    /\ v.colour \in COLOUR_OPTIONS
    /\ v.interiorFinish \in INTERIOR_FINISH_OPTIONS

\* a schema has been applied to a record and reported no issue
Accepted(of) == app = "schema" /\ input.of = of /\ output = Some({})

----------------------------------------------------------------------------
\* Stock receipt: the submitted total

\* C11: every payload the stock receipt form hands to onSubmit (or logs)
\* carries the quantity, the price and the location of the form and, as
\* totalCost, calcTotalCost of that quantity and price, whatever total the
\* form state held when Save Receipt was pressed.
C11_SubmittedTotalIsRecomputed ==
    /\ [](srSubmitted # Absent =>
            srSubmitted[1].totalCost =
                calcTotalCost(srSubmitted[1].quantityReceived, srSubmitted[1].unitPrice))
    /\ [][SrSubmit /\ stockReceiveSchema(sr) = {} =>
            srSubmitted' = Some([sr EXCEPT !.totalCost =
                                    calcTotalCost(sr.quantityReceived, sr.unitPrice)])]_vars

\* a record was submitted while the form state held another total
C11_StaleTotalReplaced ==
    /\ srSubmitted # Absent
    /\ srSubmitted[1].quantityReceived = sr.quantityReceived
    /\ srSubmitted[1].unitPrice = sr.unitPrice
    /\ srSubmitted[1].totalCost # sr.totalCost

\* a stock receipt record with a whole quantity above 0, a price and a total
\* of at least 0 and a location that is a non-empty string
StockAcceptable(v) ==
    /\ IsFinite(v.quantityReceived)
    /\ v.quantityReceived[1] % 1000 = 0
    /\ v.quantityReceived[1] > 0
    /\ v.unitPrice = Infinity \/ (IsFinite(v.unitPrice) /\ v.unitPrice[1] >= 0)
    /\ v.totalCost = Infinity \/ (IsFinite(v.totalCost) /\ v.totalCost[1] >= 0)
    /\ v.location \notin {Undefined, ""}

\* a schema has been applied to a record
Parsed(of) == app = "schema" /\ input.of = of /\ output # Absent

\* C12: stockReceiveSchema accepts a record if and only if quantityReceived
\* is an integer greater than 0, unitPrice and totalCost are at least 0 and
\* location is a non-empty string.
C12_StockSchemaAcceptsExactlyValidRecords ==
    Parsed("stock") => (output = Some({}) <=> StockAcceptable(input.rec))

\* the record with quantity 0 of the inline tests has been rejected
C12_ZeroQuantityRejected ==
    /\ Parsed("stock")
    /\ input.rec = [quantityReceived |-> Milli(0), unitPrice |-> Milli(1500),
                    totalCost |-> Milli(0), location |-> "MAIN_WH"]
    /\ output # Some({})

----------------------------------------------------------------------------
\* Employment details: duplicate secondary roles

\* the array of secondary roles of a record, [] without the key
RolesOf(v) == IF v.secondaryRoles = RolesUndefined THEN <<>> ELSE v.secondaryRoles

\* some occupation appears more than once in an array
OccupationTwice(rs) ==
    \E i \in 1..Len(rs) : \E j \in 1..Len(rs) :
        i < j /\ rs[i] = rs[j] /\ rs[i] \in OCCUPATIONS

\* every field but secondaryRoles is valid
OtherFieldsValid(v) ==
    /\ v.employeeId # TextUndefined
    /\ Len(trim(v.employeeId)) \in 1..32
    /\ v.primaryRole \in OCCUPATIONS
    /\ v.dateOfJoiningDate \notin {DateUndefined, InvalidDate}
    /\ v.employmentType \in EMPLOYMENT_TYPES
    /\ v.workLocation \in WORK_LOCATIONS
    /\ v.status \in STATUS_TYPES

OnlyOccupations(rs) == \A k \in 1..Len(rs) : rs[k] \in OCCUPATIONS

\* C13 as stated: on a record whose other fields are valid the schema
\* reports an error at path secondaryRoles exactly when some occupation
\* appears more than once in secondaryRoles; the primary role once, and no
\* secondary role, are accepted.
C13_DuplicatesReportedExactly ==
    Parsed("employment") /\ OtherFieldsValid(input.rec) =>
        /\ IssuesAt(output[1], <<"secondaryRoles">>) # {}
              <=> OccupationTwice(RolesOf(input.rec))
        /\ RolesOf(input.rec) \in {<<>>, <<input.rec.primaryRole>>} => output = Some({})

\* C13, amended: the same for the records whose secondaryRoles holds only
\* occupations; a record with another value in secondaryRoles is rejected
\* at that element's path and gets no error at path secondaryRoles.
C13_DuplicatesOfOccupationsReported ==
    Parsed("employment") /\ OtherFieldsValid(input.rec) =>
        LET rs == RolesOf(input.rec)
        IN  /\ OnlyOccupations(rs) =>
                  (IssuesAt(output[1], <<"secondaryRoles">>) # {} <=> OccupationTwice(rs))
            /\ OnlyOccupations(rs) /\ ~OccupationTwice(rs) => output = Some({})
            /\ ~OnlyOccupations(rs) =>
                  /\ IssuesAt(output[1], <<"secondaryRoles">>) = {}
                  /\ \A k \in 1..Len(rs) :
                        rs[k] \notin OCCUPATIONS =>
                            IssuesAt(output[1], <<"secondaryRoles", IndexName[k]>>) # {}

\* the record with the duplicate secondary role of the schema tests has been
\* rejected at path secondaryRoles
C13_DuplicateRejected ==
    /\ Parsed("employment")
    /\ OtherFieldsValid(input.rec)
    /\ input.rec.secondaryRoles = <<"Painter", "Painter">>
    /\ IssuesAt(output[1], <<"secondaryRoles">>) # {}

----------------------------------------------------------------------------
\* Production orders: line items and quantities

\* C14: the multi-item production order form logs a record only if each of
\* its three lists holds an entry; a submit while a list is empty is
\* rejected with an error at the list.
C14_EveryListNeedsAnEntry ==
    /\ [](poLogged # Absent => \A l \in PoLists : Len(poLogged[1][l]) >= 1)
    /\ [][PoSubmit /\ (\E l \in PoLists : Len(po[l]) = 0) =>
            /\ poLogged' = poLogged
            /\ \A l \in PoLists : Len(po[l]) = 0 => IssuesAt(poIssues', <<l>>) # {}]_vars

\* the last entry of a list was removed and the submit that followed was
\* rejected at the list
C14_EmptyListRejected ==
    \E l \in PoLists : Len(po[l]) = 0 /\ IssuesAt(poIssues, <<l>>) # {}

\* the quantities of the line items of a production order record
QuantitiesOf(v) == UNION {{v[l][k].quantity : k \in 1..Len(v[l])} : l \in ItemLists(v)}

\* an integer of at least 1
WholeFromOne(q) == Len(q) = 2 /\ q[2] = 0 /\ q[1] >= 1

\* C15: the single-type form and its schema accept a line item only if its
\* quantity is exactly 1; the multi-item form and its schema accept a line
\* item only if its quantity is an integer of at least 1.
C15_QuantityPolicy ==
    /\ soLogged # Absent => QuantitiesOf(soLogged[1]) \subseteq {<<1, 0>>}
    /\ Accepted("single") => QuantitiesOf(input.rec) \subseteq {<<1, 0>>}
    /\ poLogged # Absent => \A q \in QuantitiesOf(poLogged[1]) : WholeFromOne(q)
    /\ Accepted("order") => \A q \in QuantitiesOf(input.rec) : WholeFromOne(q)

\* the single-type schema has rejected a dome casket of quantity 2
C15_QuantityTwoRejected ==
    /\ Parsed("single")
    /\ input.rec.domeCaskets[1].quantity = <<2, 0>>
    /\ IssuesAt(output[1], <<"domeCaskets", "0", "quantity">>) # {}

----------------------------------------------------------------------------
\* Customer wizard: the dates of birth and of death

\* both dates are given and the date of death is the earlier one
DeathPrecedesBirth(v) ==
    /\ v.birthDate # <<>> /\ v.deathDate # <<>>
    /\ \/ v.deathDate[1] < v.birthDate[1]
       \/ v.deathDate[1] = v.birthDate[1] /\ v.deathDate[2] < v.birthDate[2]
       \/ /\ v.deathDate[1] = v.birthDate[1] /\ v.deathDate[2] = v.birthDate[2]
          /\ v.deathDate[3] < v.birthDate[3]

\* C16: the wizard never logs a record whose date of death precedes its
\* date of birth; a submit of such a record sets an error on deathDate and
\* shows step 1.
C16_DeathBeforeBirthNeverSubmitted ==
    /\ [](wzSubmitted # Absent => ~DeathPrecedesBirth(wzSubmitted[1]))
    /\ [][WzSubmit /\ DeathPrecedesBirth(wz) =>
            /\ wzSubmitted' = wzSubmitted
            /\ "deathDate" \in wzErrors'
            /\ step' = 1]_vars

\* a record with the date of death before the date of birth was submitted
\* and turned back
C16_SubmitTurnedBack ==
    /\ DeathPrecedesBirth(wz)
    /\ "deathDate" \in wzErrors
    /\ step = 1
    /\ wzSubmitted = Absent

----------------------------------------------------------------------------
\* Validation as a whole

\* the paths of the line-item quantities that are not acceptable
BadQuantities(v) ==
    UNION {{<<l, IndexName[k], "quantity">> :
               k \in {n \in 1..Len(v[l]) :
                         IF "job" \in DOMAIN v THEN ~WholeFromOne(v[l][n].quantity)
                         ELSE v[l][n].quantity # <<1, 0>>}} : l \in ItemLists(v)}

\* the paths of the text and number fields of the job card that are not
\* acceptable
BadJobFields(v) ==
    IF "job" \notin DOMAIN v THEN {}
    ELSE {<<"job", f>> : f \in {g \in {"expectedStartDate", "expectedStartTime"} :
                                   v.job[g] = ""}}
         \cup (IF Len(v.job.expectedDurationValue) = 2 /\ v.job.expectedDurationValue[1] >= 1
               THEN {} ELSE {<<"job", "expectedDurationValue">>})

\* the paths of all the fields of a production order that fail on their own
FailingFields(v) ==
    EmptySelects(v) \cup BlankCompanions(v) \cup BadQuantities(v) \cup BadJobFields(v)

\* C17: when several fields of a production order fail at once, the
\* rejection carries an error at the path of each of them.
C17_EveryFailingFieldReported ==
    [][/\ PoSubmit /\ Cardinality(FailingFields(po)) > 1
            => AllReported(FailingFields(po), poIssues')
       /\ SoSubmit /\ Cardinality(FailingFields(so)) > 1
            => AllReported(FailingFields(so), soIssues')
       /\ (SafeParse /\ input.of \in {"order", "single"}
                     /\ Cardinality(FailingFields(input.rec)) > 1)
            => AllReported(FailingFields(input.rec), output'[1])]_vars

----------------------------------------------------------------------------
\* calcTotalCost

\* q * p of the decimals, rounded to two places, halves away from zero
RoundedProduct(q, p) ==
    LET product == q[1] * p[1]
        cents == ((IF product < 0 THEN -product ELSE product) + 5000) \div 10000
    IN  <<IF product < 0 THEN -10 * cents ELSE 10 * cents, 3>>

\* C19: for finite q and p (here of up to three decimals), calcTotalCost(q, p)
\* is q * p rounded to two decimal places, halves rounded away from zero.
C19_TotalIsDecimalRounding ==
    \A i \in 1..Len(calcResults) :
        Len(calcArgs[1]) = 2 /\ Len(calcArgs[2]) = 2 =>
            calcResults[i] = RoundedProduct(calcArgs[1], calcArgs[2])

\* C20: calcTotalCost returns the same result for the same arguments, and 0
\* when the quantity or the price is 0 and the other is finite.
C20_CalcIsDeterministicWithZero ==
    \A i \in 1..Len(calcResults) :
        /\ calcResults[i] = calcResults[1]
        /\ /\ IsFinite(calcArgs[1]) /\ IsFinite(calcArgs[2])
           /\ calcArgs[1] = <<0, 3>> \/ calcArgs[2] = <<0, 3>>
           => calcResults[i] = <<0, 3>>

\* calcTotalCost was called twice with a quantity and the price 0
C20_ZeroPriceTwice ==
    /\ Len(calcResults) = 2
    /\ calcArgs[1] = <<3000, 3>>
    /\ calcArgs[2] = <<0, 3>>

\* C21: calcTotalCost always returns a finite number; a non-finite argument
\* counts as 0, so that calcTotalCost(NaN, 10) = 0 and calcTotalCost(2, NaN) = 0.
C21_CalcAlwaysFinite ==
    \A i \in 1..Len(calcResults) :
        /\ IsFinite(calcResults[i])
        /\ ~IsFinite(calcArgs[1]) \/ ~IsFinite(calcArgs[2]) => calcResults[i] = Milli(0)

----------------------------------------------------------------------------
\* The draft stores of the registration form

\* a save is under way: a timeout is pending or a set has not completed
SavePending(t, queue) == t # NoTimer \/ \E k \in 1..Len(queue) : queue[k].op = "set"

\* C22: when a save of a record has finished with its write to at least one
\* store done, and no later save is under way, loading the draft
\* (dbDraft || lsDraft) gives that record: also when the write to
\* IndexedDB failed after the write to localStorage succeeded.
C22_LastSuccessfulSaveIsLoaded ==
    [][/\ (PersistDraftDone /\ ~SavePending(timer', idbQueue'))
            => draftOf(idb', ls') = Head(idbQueue).val
       /\ (PersistDraftReject /\ ~SavePending(timer', idbQueue')
                              /\ ls' = Some(JsonStringify(Head(idbQueue).val[1])))
            => draftOf(idb', ls') = Head(idbQueue).val]_vars

C24_StoreFaultsAreSwallowed ==
    [][/\ MountLoadThrows
            => values' = values /\ ~loadingDraft'
       /\ PersistDraftThrows \/ PersistDraftReject
            => /\ values' = values /\ lastError' = lastError
               /\ isSubmitting' = isSubmitting /\ toasts' = toasts
               /\ formErrors' = formErrors /\ calls' = calls
       /\ SubmitResolveClearThrows \/ SubmitClearReject
            => /\ values' = values /\ lastError' = lastError
               /\ ~isSubmitting' /\ navigated'
               /\ \A t \in toasts' \ toasts : ~t.action]_vars

\* the read of the draft threw on mount although both stores held a draft:
\* the form shows its defaults and is not loading
C24_ReadThrewOnMount ==
    /\ app = "user"
    /\ edits = 0 /\ values = DefaultValues
    /\ ls # Absent /\ idb # Absent
    /\ ~loadingDraft

----------------------------------------------------------------------------
\* The schema of the registration form

UserAcceptable(v) ==
    /\ \A f \in {"firstName", "lastName"} :
          v[f] # Undefined /\ Len(v[f]) >= 1 /\ Len(v[f]) <= 100
    /\ v.role \in {"New User", "Receptionist", "Administrator", "Manager",
                   "Carpenter", "super User"}

\* C25: FormSchema accepts a record if and only if firstName and lastName
\* have 1 to 100 characters each and role is one of the six roles.
C25_FormSchemaAcceptsExactlyValidRecords ==
    Parsed("user") => (output = Some({}) <=> UserAcceptable(input.rec))

\* a record with a first name of 101 characters was rejected for it alone,
\* and one of 100 characters is accepted
C25_LongNameRejected ==
    /\ Parsed("user")
    /\ Len(input.rec.firstName) = 101
    /\ input.rec.lastName = "Doe" /\ input.rec.role = "Manager"
    /\ output = Some({Issue(<<"firstName">>, "Invalid", FALSE)})
    /\ FormSchemaOk([input.rec EXCEPT !.firstName = repeat("x", 100)])

----------------------------------------------------------------------------
\* The submit button of the stock withdrawal form

\* C26: the submit button is enabled only when the values are valid, there
\* are items and disabled is not set; values are handed to onSubmit only by
\* an enabled button, so that without items nothing is ever submitted and
\* no item can be selected.
C26_SubmitNeedsItems ==
    /\ [](~submitDisabled
             => withdrawalSchema(sw) = {} /\ itemsOrDefault(swItems) # {} /\ ~swDisabled)
    /\ [](swItems \in {Absent, Some({})} => submitDisabled)
    /\ [][swSubmitted' # swSubmitted
             => /\ ~submitDisabled /\ swItems \notin {Absent, Some({})}
                /\ withdrawalSchema(sw) = {}
                /\ swSubmitted' = Some(withdrawalData(sw))]_vars
    /\ [][(swItems \in {Absent, Some({})} /\ sw'.stockItemId # sw.stockItemId)
             => sw' = swDefaults]_vars

\* a form without items whose values are all valid after an edit: the
\* button is disabled all the same, and nothing was submitted
C26_ValidButNoItems ==
    /\ app = "withdrawal"
    /\ swItems = Some({})
    /\ ~swDisabled /\ swIsValid /\ withdrawalSchema(sw) = {}
    /\ swEdits > 0
    /\ submitDisabled
    /\ swSubmitted = Absent

----------------------------------------------------------------------------
\* The in-flight flag

\* C27: every submission attempt leaves the in-flight state: whenever
\* isSubmitting (registration form) or submitting (downtime form) is true it
\* becomes false again, and the step in which a gateway call fails sets it
\* to false.
C27_SubmittingEnds ==
    /\ isSubmitting ~> ~isSubmitting
    /\ submitting ~> ~submitting
    /\ [][/\ (\E i \in 1..Len(calls) : calls[i].st = "inflight" /\ calls'[i].st = "failed")
              => ~isSubmitting'
          /\ (dtCall # Absent /\ dtCall' = Absent) => ~submitting']_vars

\* the downtime form failed to save, was idle again, and a second submit
\* was started and has settled
C27_SubmittedAgainAfterFailure ==
    /\ app = "downtime"
    /\ dtAlert = "Failed to save"
    /\ dtCalls = 2
    /\ dtCall = Absent
    /\ ~submitting

----------------------------------------------------------------------------
\* The steps of the customer wizards

\* the Customer Details of the validated five-step wizard are acceptable
CustomerDetailsValid(v) ==
    /\ v.customerFirstName # ""
    /\ v.customerLastName # ""
    /\ Len(v.phone) >= 7
    /\ \A n \in 1..Len(v.phone) :
          v.phone[n] \in {"0", "1", "2", "3", "4", "5", "6", "7", "8", "9", "+", " ", "(", ")", "-"}
    /\ v.email = <<>> \/ emailRegex(v.email)

\* the fields of the first step
CustomerDetails(v) ==
    IF app = "coffin"
    THEN <<v.customerFirstName, v.customerLastName, v.phone, v.email>>
    ELSE <<v.customerName, v.phone, v.email>>

\* C28: in the validated wizards a step after the first is shown only with
\* valid Customer Details (five-step wizard: first and last name non-empty,
\* phone valid, email valid or empty; two-step wizard: customerName
\* non-empty): the first step is left only when they are valid, and they
\* do not change on a later step.
C28_LaterStepsHaveValidCustomerDetails ==
    /\ [](app = "coffin" /\ step >= 1 => CustomerDetailsValid(wz))
    /\ [](app = "wizard" /\ step >= 1 => wz.customerName # "")
    /\ [][(app \in {"coffin", "wizard"} /\ step = 0 /\ step' # 0) =>
            (IF app = "coffin" THEN CustomerDetailsValid(wz) ELSE wz.customerName # "")]_vars
    /\ [][(app \in {"coffin", "wizard"} /\ step # 0) =>
            (CustomerDetails(wz') = CustomerDetails(wz))]_vars

\* the five-step wizard has left its first step with an email address and
\* a phone number written with brackets
C28_PastCustomerDetails ==
    /\ app = "coffin"
    /\ step = 1
    /\ wz.email = EmailText
    /\ wz.phone # PhoneText

\* the number of steps of the wizard that is mounted
StepCount ==
    CASE app = "wizard" -> Len(steps)
      [] app = "coffin" -> Len(ccSteps)
      [] app = "customer" -> Len(cuSteps)
      [] OTHER -> 1

----------------------------------------------------------------------------
\* Single-type production order: the selected type

\* every entry of the three lists of a single-type record is valid: its
\* option fields hold options, "Other" has its companion, the quantity is 1
EntriesValid(v) ==
    /\ OrderOptionsChosen(v)
    /\ BlankCompanions(v) = {}
    /\ QuantitiesOf(v) \subseteq {<<1, 0>>}

\* the list of the selected type holds a filled entry, the other two lists
\* their default entries
OnlySelectedFilled(v) ==
    /\ v.coffinType \in COFFIN_TYPES
    /\ \A l \in SoLists :
          IF l = CardOf(v.coffinType) THEN v[l] = validSingle[l] ELSE v[l] = defaultSingle[l]

\* C30: the single-type form and its schema accept a record exactly if
\* every entry of flatCaskets, fishCoffins and domeCaskets is valid,
\* whatever coffinType is selected: a record with only the selected type's
\* entry filled and the other lists at their defaults is rejected, and the
\* coffinType "" does not cause a rejection.
C30_AcceptanceIgnoresCoffinType ==
    /\ [](Parsed("single") =>
            /\ (output[1] = {}) = EntriesValid(input.rec)
            /\ \A t \in COFFIN_TYPES \cup {""} :
                  (schema1([input.rec EXCEPT !.coffinType = t]) = {}) = (output[1] = {})
            /\ OnlySelectedFilled(input.rec) => output[1] # {})
    /\ [](app = "single" => (schema1(so) = {}) = EntriesValid(so))
    /\ [][SoSubmit => /\ (soIssues' = {}) = EntriesValid(so)
                      /\ (soLogged' = Some(so)) = EntriesValid(so)
                      /\ OnlySelectedFilled(so) => soLogged' = soLogged]_vars

\* the schema has rejected a record in which only the entry of the selected
\* type is filled in
C30_OnlySelectedFilledRejected ==
    /\ Parsed("single")
    /\ OnlySelectedFilled(input.rec)
    /\ input.rec.coffinType = "Dome Casket"
    /\ output[1] # {}
    /\ IssuesAt(output[1], <<"domeCaskets", "0", "material">>) = {}

====
